---- MODULE Spec2Model ----
(***************************************************************************)
(* A model of bevy_alchemy: status effects applied to target entities      *)
(* through deferred AddEffectCommand commands, the Stack / Insert / Merge   *)
(* collision modes, the merge registry, the Lifetime and Delay effect      *)
(* timers with their TimerMergeMode arithmetic, and the per-frame          *)
(* maintenance systems that tick timers and despawn finished lifetimes.    *)
(*                                                                         *)
(* Time is a Duration, whole seconds and nanoseconds, and the f32           *)
(* arithmetic of the timer merge is computed as the code computes it.      *)
(* An entity is a number; the world maps every live entity to the          *)
(* function from the component kinds it carries to their values.          *)
(***************************************************************************)
EXTENDS Integers, Sequences, FiniteSets, TLC

VARIABLES
    world,      \* live entity -> (component kind -> value)
    queue,      \* the deferred command queue, oldest first
    registry,   \* the EffectMergeRegistry resource, or its absence
    plugin,     \* whether AlchemyPlugin (and its systems) is installed
    phase,      \* the position in the frame pipeline
    delta,      \* Time::delta() of the frame being run
    issued,     \* number of AddEffectCommands queued so far
    batch,      \* history: the commands the flush in progress started with
    age,        \* history: entity with a Lifetime -> seconds ticked since an
                \* AddEffectCommand last wrote to it
    result,     \* timer harness: the timer merge is called on (self)
    other,      \* timer harness: the timer passed to merge
    merges,     \* timer harness: number of merge calls made so far
    before,     \* timer harness: <<self>> as it was before the merge just
                \* made, <<>> when the last step was no merge
    calls       \* history: the calls made so far to the registry or to
                \* the timer builders, oldest first

vars == <<world, queue, registry, plugin, phase, delta, issued, batch, age,
          result, other, merges, before, calls>>

(***************************************************************************)
(* Bounds of the model.                                                    *)
(***************************************************************************)
\* Most AddEffectCommands game logic queues in one run.
MaxCommands == 2
\* Largest duration, in seconds, the timer harness builds a timer with.
MaxDuration == 2
\* Most merge calls in one run of the timer harness.
MaxMerges == 2

\* The frame deltas, in whole seconds, a tick advances a timer by.
Deltas == {0, 1}

\* The values of the MyEffect payload component.
PayloadValues == {0, 1}

\* Lifetime::from_seconds(2.0), the lifetime the decaying speed example gives
\* its effect.
ExampleLifetime == 2

\* Delay::from_seconds(1.0), the delay between the poison example's ticks.
ExampleDelay == 1

(***************************************************************************)
(* std::time::Duration: whole seconds and the nanoseconds under a second.  *)
(***************************************************************************)
\* NANOS_PER_SEC
NanosPerSec == 1000000000

\* Duration::new(secs, nanos), nanos < NANOS_PER_SEC
DurationNew(secs, nanos) == [secs |-> secs, nanos |-> nanos]

\* Duration::from_secs
from_secs(secs) == DurationNew(secs, 0)

\* Duration::ZERO
DurationZero == from_secs(0)

\* a <= b and a < b on Durations
DurationLe(a, b) ==
    a.secs < b.secs \/ (a.secs = b.secs /\ a.nanos <= b.nanos)

DurationLt(a, b) == ~DurationLe(b, a)

\* a + b on Durations
DurationAdd(a, b) ==
    IF a.nanos + b.nanos >= NanosPerSec
    THEN DurationNew(a.secs + b.secs + 1, a.nanos + b.nanos - NanosPerSec)
    ELSE DurationNew(a.secs + b.secs, a.nanos + b.nanos)

\* a - b on Durations, for a >= b (the subtraction panics otherwise)
DurationSub(a, b) ==
    IF a.nanos >= b.nanos
    THEN DurationNew(a.secs - b.secs, a.nanos - b.nanos)
    ELSE DurationNew(a.secs - b.secs - 1, a.nanos + NanosPerSec - b.nanos)

\* a.as_nanos() / b.as_nanos() and a.as_nanos() % b.as_nanos(), for b > 0:
\* the quotient, counted from q, and the remainder.
RECURSIVE DurationDivRem(_, _, _)
DurationDivRem(a, b, q) ==
    IF DurationLt(a, b) THEN <<q, a>>
    ELSE DurationDivRem(DurationSub(a, b), b, q + 1)

(***************************************************************************)
(* A u32 in two halves of 16 bits, the upper one first.                    *)
(***************************************************************************)
\* n as u32, for 0 <= n < 2^31
U32(n) == <<n \div 2^16, n % 2^16>>

\* u32::MAX
U32Max == <<2^16 - 1, 2^16 - 1>>

(***************************************************************************)
(* bevy_time::Timer, as far as the crate uses it.                          *)
(***************************************************************************)
TimerModes == {"Once", "Repeating"}

TimerMergeModes == {"Replace", "Keep", "Fraction", "Max", "Sum"}

\* Timer::new(duration, mode): nothing elapsed, not finished.
TimerNew(duration, mode) ==
    [duration |-> duration, elapsed |-> DurationZero, mode |-> mode,
     finished |-> FALSE, times_finished_this_tick |-> U32(0)]

\* Timer::tick(dt). A finished run-once timer stays as it is; otherwise the
\* elapsed time advances, a run-once timer saturates at its duration and a
\* repeating timer wraps around it. A repeating timer of duration zero
\* finishes u32::MAX times.
TimerTick(t, dt) ==
    IF t.mode # "Repeating" /\ t.finished
    THEN [t EXCEPT !.times_finished_this_tick = U32(0)]
    ELSE LET e == DurationAdd(t.elapsed, dt) IN
         IF DurationLe(t.duration, e)
         THEN IF t.mode = "Repeating"
              THEN [t EXCEPT !.finished = TRUE,
                             !.times_finished_this_tick =
                                 IF t.duration = DurationZero THEN U32Max
                                 ELSE U32(DurationDivRem(e, t.duration, 0)[1]),
                             !.elapsed =
                                 IF t.duration = DurationZero THEN DurationZero
                                 ELSE DurationDivRem(e, t.duration, 0)[2]]
              ELSE [t EXCEPT !.finished = TRUE,
                             !.times_finished_this_tick = U32(1),
                             !.elapsed = t.duration]
         ELSE [t EXCEPT !.finished = FALSE,
                        !.times_finished_this_tick = U32(0),
                        !.elapsed = e]

\* Timer::remaining(): duration - elapsed.
TimerRemaining(t) == DurationSub(t.duration, t.elapsed)

(***************************************************************************)
(* f32 arithmetic, as the Fraction and Max arms of the timer merge use it. *)
(* An f32 is written [m, e] and stands for m * 2^e with 2^23 <= m < 2^24,  *)
(* its 24 significant bits, or for zero when m = 0. Every operation rounds *)
(* its exact result to the nearest f32, ties to the even one.              *)
(***************************************************************************)
\* 0.0_f32 and 1.0_f32
F32Zero == [m |-> 0, e |-> 0]

F32One == [m |-> 2^23, e |-> -23]

\* The number of binary digits of n, 0 < n < 2^30.
BitLen(n) == CHOOSE p \in 1..30 : n < 2^p /\ 2^(p - 1) <= n

\* The f32 nearest to n * 2^e, for 0 < n < 2^30.
F32Nearest(n, e) ==
    LET p == BitLen(n) IN
    IF p <= 24
    THEN [m |-> n * 2^(24 - p), e |-> e - (24 - p)]
    ELSE LET s == p - 24
             q == n \div 2^s
             r == n % 2^s
             half == 2^(s - 1)
             up == r > half \/ (r = half /\ (q % 2) = 1)
             m == IF up THEN q + 1 ELSE q
         IN IF m = 2^24
            THEN [m |-> 2^23, e |-> e + s + 1]
            ELSE [m |-> m, e |-> e + s]

\* The f32 nearest to n * 2^e, or to (n + 1/2) * 2^e when `sticky`, for
\* 0 <= n < 2^29. Where n has 25 digits or more, (n + 1/2) * 2^e rounds as
\* every number between n * 2^e and (n + 1) * 2^e does: `sticky` then says
\* that digits beyond those of n were not all zero.
F32Round(n, e, sticky) ==
    IF sticky THEN F32Nearest(2 * n + 1, e - 1)
    ELSE IF n = 0 THEN F32Zero
    ELSE F32Nearest(n, e)

\* n as f32, for an integer 0 <= n < 2^30.
F32FromInt(n) == F32Round(n, 0, FALSE)

\* x + y in f32, for x, y >= 0.
F32Add(x, y) ==
    IF x.m = 0 THEN y
    ELSE IF y.m = 0 THEN x
    ELSE LET hi == IF x.e >= y.e THEN x ELSE y
             lo == IF x.e >= y.e THEN y ELSE x
             k == hi.e - lo.e
         IN IF k <= 5 THEN F32Round(hi.m * 2^k + lo.m, lo.e, FALSE)
            ELSE IF k >= 27 THEN hi
            ELSE F32Round(hi.m * 4 + lo.m \div 2^(k - 2), hi.e - 2,
                          (lo.m % 2^(k - 2)) # 0)

\* x * y in f32: the 48-digit product of the two significands, in two
\* halves of 24 digits, rounded.
F32Mul(x, y) ==
    IF x.m = 0 \/ y.m = 0 THEN F32Zero
    ELSE LET a == x.m \div 2^12
             b == x.m % 2^12
             c == y.m \div 2^12
             d == y.m % 2^12
             mid == a * d + b * c
             low == b * d + (mid % 2^12) * 2^12
             hi == a * c + mid \div 2^12 + low \div 2^24
             lo == low % 2^24
         IN F32Round(hi * 2^3 + lo \div 2^21, x.e + y.e + 21, (lo % 2^21) # 0)

\* `steps` more binary digits of the quotient q of a division by d that has
\* left the remainder r: the quotient and the remainder then.
RECURSIVE LongDivide(_, _, _, _)
LongDivide(q, r, d, steps) ==
    IF steps = 0 THEN <<q, r>>
    ELSE IF 2 * r >= d
         THEN LongDivide(2 * q + 1, 2 * r - d, d, steps - 1)
         ELSE LongDivide(2 * q, 2 * r, d, steps - 1)

\* x / y in f32, for x >= 0 and y > 0: 25 digits of the quotient of the
\* significands, rounded.
F32Div(x, y) ==
    IF x.m = 0 THEN F32Zero
    ELSE LET k == IF x.m >= y.m THEN 24 ELSE 25
             qr == LongDivide(x.m \div y.m, x.m % y.m, y.m, k)
         IN F32Round(qr[1], x.e - y.e - k, qr[2] # 0)

\* x > y on f32, for x, y >= 0.
F32Greater(x, y) ==
    /\ x.m # 0
    /\ \/ y.m = 0
       \/ x.e > y.e
       \/ x.e = y.e /\ x.m > y.m

\* Duration::as_secs_f32: (secs as f32) + (nanos as f32) / (NANOS_PER_SEC as f32)
as_secs_f32(d) ==
    F32Add(F32FromInt(d.secs),
           F32Div(F32FromInt(d.nanos), F32FromInt(NanosPerSec)))

\* n * 10^9 / 2^(s + 9) = n * 5^9 / 2^s rounded to the nearest integer, ties
\* to even, for 0 <= n < 2^24 and a result under 2^30. The product n * 5^9
\* is T * 2^16 + L.
NanosRounded(n, s) ==
    LET A == (n \div 2^16) * 5^9
        B == ((n \div 2^8) % 2^8) * 5^9
        C == (n % 2^8) * 5^9
        t1 == B + C \div 2^8
        T == A + t1 \div 2^8
        L == (t1 % 2^8) * 2^8 + (C % 2^8)
    IN IF s >= 46 THEN 0
       ELSE IF s >= 17
       THEN LET q == T \div 2^(s - 16)
                r == T % 2^(s - 16)
                half == 2^(s - 17)
                up == r > half \/ (r = half /\ (L > 0 \/ (q % 2) = 1))
            IN IF up THEN q + 1 ELSE q
       ELSE LET q == T * 2^(16 - s) + L \div 2^s
                r == L % 2^s
                half == 2^(s - 1)
                up == s > 0 /\ (r > half \/ (r = half /\ (q % 2) = 1))
            IN IF up THEN q + 1 ELSE q

\* Duration::from_secs_f32(x), for x >= 0: the whole seconds of x = m / 2^k
\* and the rest in nanoseconds, rounded to the nearest whole one, ties to
\* even.
from_secs_f32(x) ==
    LET k == -x.e
        secs == IF k >= 24 THEN 0
                ELSE IF k > 0 THEN x.m \div 2^k ELSE x.m * 2^(-k)
        rest == IF k >= 24 THEN x.m ELSE IF k > 0 THEN x.m % 2^k ELSE 0
        nanos == IF k >= 9 THEN NanosRounded(rest, k - 9)
                 ELSE IF k > 0 THEN rest * 2^(9 - k) * 5^9 ELSE 0
    IN IF x.m = 0 THEN DurationZero
       ELSE IF nanos = NanosPerSec THEN DurationNew(secs + 1, 0)
       ELSE DurationNew(secs, nanos)

\* Timer::fraction(): 1.0 for a timer of duration zero, else
\* elapsed().as_secs_f32() / duration().as_secs_f32()
fraction(t) ==
    IF t.duration = DurationZero THEN F32One
    ELSE F32Div(as_secs_f32(t.elapsed), as_secs_f32(t.duration))

\* Timer::remaining_secs(): remaining().as_secs_f32()
remaining_secs(t) == as_secs_f32(TimerRemaining(t))

(***************************************************************************)
(* Lifetime and Delay: a Timer and a TimerMergeMode.                       *)
(***************************************************************************)
TimerKinds == {"Lifetime", "Delay"}

\* impl_effect_timer!(Lifetime, TimerMode::Once), (Delay, TimerMode::Repeating)
TimerModeOf(kind) == IF kind = "Lifetime" THEN "Once" ELSE "Repeating"

\* Lifetime::default().mode is Max, Delay::default().mode is Fraction.
DefaultMergeMode(kind) == IF kind = "Lifetime" THEN "Max" ELSE "Fraction"

\* EffectTimer::new(duration)
EffectTimerNew(kind, duration) ==
    [timer |-> TimerNew(duration, TimerModeOf(kind)),
     mode |-> DefaultMergeMode(kind)]

\* EffectTimer::from_seconds(seconds), for a whole number of seconds:
\* Self::new(Duration::from_secs_f32(seconds))
from_seconds(kind, seconds) ==
    EffectTimerNew(kind, from_secs_f32(F32FromInt(seconds)))

\* A with_mode that starts the timer again.
WithModeRestarts(self, mode) ==
    [timer |-> TimerNew(self.timer.duration, self.timer.mode), mode |-> mode]

\* EffectTimer::with_mode
WithMode(self, mode) == [self EXCEPT !.mode = mode]

\* The Duration set_elapsed receives in the Fraction arm:
\* Duration::from_secs_f32(other.timer.fraction() * self.timer.duration().as_secs_f32())
FractionElapsed(self, incoming) ==
    from_secs_f32(F32Mul(fraction(incoming.timer),
                         as_secs_f32(self.timer.duration)))

\* A Replace arm that takes the other timer.
MergeReplaceTakesOther(self, incoming) == [self EXCEPT !.timer = incoming.timer]

\* TimerMergeMode::Replace => {}
MergeReplace(self, incoming) == self

\* A Keep arm that copies only the timer's duration.
MergeKeepDurationOnly(self, incoming) ==
    [self EXCEPT !.timer.duration = incoming.timer.duration]

\* TimerMergeMode::Keep => self.timer = other.timer.clone()
MergeKeep(self, incoming) == [self EXCEPT !.timer = incoming.timer]

\* A Fraction arm that copies the other timer's elapsed time as it is.
MergeFractionCopiesElapsed(self, incoming) ==
    [self EXCEPT !.timer.elapsed = incoming.timer.elapsed]

\* TimerMergeMode::Fraction => self.timer.set_elapsed(fraction * duration)
MergeFraction(self, incoming) ==
    [self EXCEPT !.timer.elapsed = FractionElapsed(self, incoming)]

\* TimerMergeMode::Max => the other timer when its remaining_secs() is the
\* greater f32. Timer::remaining() subtracts the elapsed time from the
\* duration and needs elapsed <= duration in both timers.
MergeMax(self, incoming) ==
    IF F32Greater(remaining_secs(incoming.timer), remaining_secs(self.timer))
    THEN [self EXCEPT !.timer = incoming.timer]
    ELSE self

\* A Sum arm that adds the time the other timer has left, not its duration.
MergeSumAddsRemaining(self, incoming) ==
    [self EXCEPT !.timer.duration =
        DurationAdd(TimerRemaining(incoming.timer), self.timer.duration)]

\* TimerMergeMode::Sum => self.timer.set_duration(other + self)
MergeSum(self, incoming) ==
    [self EXCEPT !.timer.duration =
        DurationAdd(incoming.timer.duration, self.timer.duration)]

\* A merge whose arm is chosen by the merge mode of the other timer.
TimerMergeByOther(self, incoming) ==
    CASE incoming.mode = "Replace" -> MergeReplace(self, incoming)
      [] incoming.mode = "Keep" -> MergeKeep(self, incoming)
      [] incoming.mode = "Fraction" -> MergeFraction(self, incoming)
      [] incoming.mode = "Max" -> MergeMax(self, incoming)
      [] incoming.mode = "Sum" -> MergeSum(self, incoming)

\* EffectTimer::merge(&mut self, incoming): the value of self afterwards,
\* the arm chosen by self's own merge mode.
TimerMerge(self, incoming) ==
    CASE self.mode = "Replace" -> MergeReplace(self, incoming)
      [] self.mode = "Keep" -> MergeKeep(self, incoming)
      [] self.mode = "Fraction" -> MergeFraction(self, incoming)
      [] self.mode = "Max" -> MergeMax(self, incoming)
      [] self.mode = "Sum" -> MergeSum(self, incoming)

(***************************************************************************)
(* The ECS world: entities and their components.                           *)
(***************************************************************************)
\* The entities effects are applied to; they live for the whole run.
Targets == {1, 2}

\* The names (IDs) effects are given.
Names == {"a", "b"}

\* enum EffectMode
EffectModes == {"Stack", "Insert", "Merge"}

\* No entity: the None of an Option<Entity>.
NoEntity == 0

Has(w, e, k) == e \in DOMAIN w /\ k \in DOMAIN w[e]

\* The components of `c` other than those of the kinds `ks`.
Without(c, ks) == [k \in DOMAIN c \ ks |-> c[k]]

\* The live entities that are effects: those carrying an EffectMode.
Effects(w) == {e \in DOMAIN w : "EffectMode" \in DOMAIN w[e]}

\* World::spawn_empty allocates an entity no live entity shares.
FreshEntity(w) ==
    CHOOSE n \in 1..(Cardinality(DOMAIN w) + 1) :
        n \notin DOMAIN w /\ \A m \in 1..(n - 1) : m \in DOMAIN w

\* The relation set of target t: the collection of its EffectedBy, empty when
\* the target carries none.
EffectedBy(w, t) == IF Has(w, t, "EffectedBy") THEN w[t]["EffectedBy"] ELSE {}

\* Relationship hook, on insertion of Effecting(t) into e: e joins the relation
\* set of t, which is created when t has none.
OnInsertEffecting(w, e) ==
    LET t == w[e]["Effecting"] IN
    IF t \in DOMAIN w
    THEN [w EXCEPT ![t] = ("EffectedBy" :> (EffectedBy(w, t) \cup {e})) @@ w[t]]
    ELSE [w EXCEPT ![e] = Without(w[e], {"Effecting"})]

\* A hook that leaves the entity in the relation set of its target.
OnReplaceKeepsEntry(w, e) == w

\* Relationship hook, before Effecting is replaced on or removed from e: e
\* leaves the relation set of its target, and an emptied set is removed.
OnReplaceEffecting(w, e) ==
    IF ~Has(w, e, "Effecting") THEN w
    ELSE LET t == w[e]["Effecting"]
             rest == EffectedBy(w, t) \ {e}
         IN  IF ~Has(w, t, "EffectedBy") THEN w
             ELSE IF rest = {}
             THEN [w EXCEPT ![t] = Without(w[t], {"EffectedBy"})]
             ELSE [w EXCEPT ![t] = ("EffectedBy" :> rest) @@ w[t]]

\* World::despawn(e): e and its components are gone, and so is its place in
\* the relation set of its target. Despawning a missing entity does nothing.
Despawn(w, e) ==
    IF e \notin DOMAIN w THEN w
    ELSE LET w1 == OnReplaceEffecting(w, e) IN
         [x \in DOMAIN w1 \ {e} |-> w1[x]]

(***************************************************************************)
(* The merge registry.                                                     *)
(***************************************************************************)
\* A world without the EffectMergeRegistry resource.
NoRegistry == [present |-> FALSE, merges |-> <<>>]

\* EffectMergeRegistry::default()
EmptyRegistry == [present |-> TRUE, merges |-> <<>>]

\* A register that keeps the function a kind was first registered with.
registerKeepsFirst(reg, kind, f) ==
    [reg EXCEPT !.merges = reg.merges @@ (kind :> f)]

\* EffectMergeRegistry::register::<T>(f)
register(reg, kind, f) == [reg EXCEPT !.merges = (kind :> f) @@ reg.merges]

\* AlchemyPlugin: init_resource, then the registrations of TimerPlugin.
PluginRegistry ==
    register(register(EmptyRegistry,
        "Lifetime", "merge_timer"), "Delay", "merge_timer")

\* StackPlugin::build on the registry of an App with AlchemyPlugin.
StackPluginRegistry ==
    register(PluginRegistry, "EffectStacks", "merge_effect_stacks")

\* A merge_effect_stacks that leaves the incoming counter as it is.
MergeEffectStacksKeepsNew(new, outgoing) == new

\* merge_effect_stacks: the u8 counter of the surviving effect += the outgoing.
MergeEffectStacks(new, outgoing) == (new + outgoing) % 256

\* The registered merge function f on the component of the surviving effect
\* (new) and that of the outgoing one: the surviving component afterwards.
CallMergeFn(f, new, outgoing) ==
    CASE f = "merge_timer" -> TimerMerge(new, outgoing)
      [] f = "merge_effect_stacks" -> MergeEffectStacks(new, outgoing)

(***************************************************************************)
(* AddEffectCommand                                                        *)
(***************************************************************************)
\* AddEffectCommand { target, bundle: EffectBundle { name, mode, bundle } }
AddEffectCommand(target, name, mode, bundle) ==
    [kind |-> "AddEffect", target |-> target, name |-> name, mode |-> mode,
     bundle |-> bundle]

\* commands.entity(entity).despawn()
DespawnCommand(entity) == [kind |-> "Despawn", entity |-> entity]

\* An insert that leaves the entity with the inserted components only.
insertReplacesAll(w, cmd, entity) ==
    LET w1 == OnReplaceEffecting(w, entity)
        comps == cmd.bundle @@
                 [Effecting |-> cmd.target, Name |-> cmd.name,
                  EffectMode |-> cmd.mode]
        w2 == [w1 EXCEPT ![entity] = comps]
    IN  OnInsertEffecting(w2, entity)

\* An insert that keeps the components the entity already carries.
insertKeepsExisting(w, cmd, entity) ==
    LET w1 == OnReplaceEffecting(w, entity)
        comps == cmd.bundle @@
                 [Effecting |-> cmd.target, Name |-> cmd.name,
                  EffectMode |-> cmd.mode]
        w2 == [w1 EXCEPT ![entity] = w1[entity] @@ comps]
    IN  OnInsertEffecting(w2, entity)

\* AddEffectCommand::insert: Effecting(target), the name, the mode and the
\* bundle's components are inserted into the entity, each overwriting the
\* component of its kind; the relationship hooks run for Effecting.
insert(w, cmd, entity) ==
    LET w1 == OnReplaceEffecting(w, entity)
        comps == cmd.bundle @@
                 [Effecting |-> cmd.target, Name |-> cmd.name,
                  EffectMode |-> cmd.mode]
        w2 == [w1 EXCEPT ![entity] = comps @@ w1[entity]]
    IN  OnInsertEffecting(w2, entity)

\* AddEffectCommand::spawn: a new empty entity, inserted into.
spawn(w, cmd) ==
    LET id == FreshEntity(w) IN insert((id :> <<>>) @@ w, cmd, id)

\* The kinds of `existing` that clone_with_opt_in copies to the temporary
\* entity: those the registry has a merge function for.
ClonedKinds(w, reg, existing) == DOMAIN w[existing] \cap DOMAIN reg.merges

\* The worlds AddEffectCommand::merge goes through when the registry is
\* present: <<1>> the registered components of the existing entity copied to
\* a temporary disabled entity, <<2>> the bundle inserted into the existing
\* entity, <<3>> the merge function of every registered kind on the temporary
\* entity called, <<4>> the temporary entity despawned.
mergeStages(w, reg, cmd, existing_entity) ==
    LET temp == FreshEntity(w)
        cloned == ClonedKinds(w, reg, existing_entity)
        w1 == (temp :> ([k \in cloned |-> w[existing_entity][k]]
                        @@ [Disabled |-> TRUE])) @@ w
        w2 == insert(w1, cmd, existing_entity)
        fns == DOMAIN w2[temp] \cap DOMAIN reg.merges
        w3 == [w2 EXCEPT ![existing_entity] =
                  [k \in DOMAIN @ |->
                      IF k \in fns
                      THEN CallMergeFn(reg.merges[k], @[k], w2[temp][k])
                      ELSE @[k]]]
    IN  <<w1, w2, w3, Despawn(w3, temp)>>

\* The component kind merge function f, registered for kind k, reads from
\* both entities and unwraps: merge_timer::<T> is registered for its own T,
\* merge_effect_stacks reads EffectStacks.
UnwrappedKind(f, k) == IF f = "merge_effect_stacks" THEN "EffectStacks" ELSE k

\* Every merge function that AddEffectCommand::merge calls finds its
\* component on the surviving entity and on the temporary one: both unwraps
\* of each call yield a value.
UnwrapsSucceed(w, reg, cmd, existing_entity) ==
    LET st == mergeStages(w, reg, cmd, existing_entity)
        temp == FreshEntity(w)
        fns == DOMAIN st[2][temp] \cap DOMAIN reg.merges
    IN  \A k \in fns :
            /\ Has(st[2], temp, UnwrappedKind(reg.merges[k], k))
            /\ Has(st[2], existing_entity, UnwrappedKind(reg.merges[k], k))

\* A merge that returns without despawning the temporary entity.
mergeLeavesTemp(w, reg, cmd, existing_entity) ==
    IF ~reg.present THEN w
    ELSE mergeStages(w, reg, cmd, existing_entity)[3]

\* AddEffectCommand::merge: without a registry nothing is done; otherwise the
\* world after the last of its stages.
merge(w, reg, cmd, existing_entity) ==
    IF ~reg.present THEN w
    ELSE mergeStages(w, reg, cmd, existing_entity)[4]

\* A search that does not compare modes.
MatchesAnyMode(w, cmd) ==
    {e \in EffectedBy(w, cmd.target) :
        Has(w, e, "Name") /\ w[e]["Name"] = cmd.name}

\* A search that does not compare names.
MatchesAnyName(w, cmd) ==
    {e \in EffectedBy(w, cmd.target) :
        Has(w, e, "EffectMode") /\ w[e]["EffectMode"] = cmd.mode}

\* A search whose name comparison is inverted.
MatchesOtherName(w, cmd) ==
    {e \in EffectedBy(w, cmd.target) :
        /\ Has(w, e, "EffectMode") /\ w[e]["EffectMode"] = cmd.mode
        /\ Has(w, e, "Name") /\ w[e]["Name"] # cmd.name}

\* The search of AddEffectCommand::apply: the effects of the target's relation
\* set that carry the command's mode and name.
Matches(w, cmd) ==
    {e \in EffectedBy(w, cmd.target) :
        /\ Has(w, e, "EffectMode") /\ w[e]["EffectMode"] = cmd.mode
        /\ Has(w, e, "Name") /\ w[e]["Name"] = cmd.name}

\* The values old_entity can take: find_map yields the first match in the
\* order of the collection, any match here, and None when there is none.
OldEntities(w, cmd) ==
    IF cmd.kind = "Despawn" \/ cmd.mode = "Stack"
       \/ ~Has(w, cmd.target, "EffectedBy") \/ Matches(w, cmd) = {}
    THEN {NoEntity}
    ELSE Matches(w, cmd)

\* An apply that merges on an Insert collision too.
applyInsertMerges(w, reg, cmd, old_entity) ==
    IF cmd.mode = "Stack" THEN spawn(w, cmd)
    ELSE IF ~Has(w, cmd.target, "EffectedBy") THEN spawn(w, cmd)
    ELSE IF old_entity = NoEntity THEN spawn(w, cmd)
    ELSE merge(w, reg, cmd, old_entity)

\* An apply that returns without spawning when the search finds no effect.
applyDropsUnmatched(w, reg, cmd, old_entity) ==
    IF cmd.mode = "Stack" THEN spawn(w, cmd)
    ELSE IF ~Has(w, cmd.target, "EffectedBy") THEN spawn(w, cmd)
    ELSE IF old_entity = NoEntity THEN w
    ELSE IF cmd.mode = "Insert" THEN insert(w, cmd, old_entity)
    ELSE merge(w, reg, cmd, old_entity)

\* An apply without the early return for Stack: a Stack command searches the
\* relation set and inserts into what it finds, like Insert.
applyStackSearches(w, reg, cmd, old_entity) ==
    LET found == IF cmd.mode = "Stack" /\ Matches(w, cmd) # {}
                 THEN CHOOSE e \in Matches(w, cmd) : TRUE
                 ELSE old_entity
    IN  IF ~Has(w, cmd.target, "EffectedBy") THEN spawn(w, cmd)
        ELSE IF found = NoEntity THEN spawn(w, cmd)
        ELSE IF cmd.mode = "Merge" THEN merge(w, reg, cmd, found)
        ELSE insert(w, cmd, found)

\* AddEffectCommand::apply, old_entity being what the search found.
apply(w, reg, cmd, old_entity) ==
    IF cmd.mode = "Stack" THEN spawn(w, cmd)
    ELSE IF ~Has(w, cmd.target, "EffectedBy") THEN spawn(w, cmd)
    ELSE IF old_entity = NoEntity THEN spawn(w, cmd)
    ELSE IF cmd.mode = "Insert" THEN insert(w, cmd, old_entity)
    ELSE merge(w, reg, cmd, old_entity)

\* The way through apply without the early return for Stack.
applyArmWithoutEarlyReturn(w, cmd, old_entity) ==
    IF ~Has(w, cmd.target, "EffectedBy") THEN "spawn"
    ELSE IF old_entity = NoEntity THEN "spawn"
    ELSE CASE cmd.mode = "Stack" -> "unreachable"
           [] cmd.mode = "Insert" -> "insert"
           [] cmd.mode = "Merge" -> "merge"

\* The way AddEffectCommand::apply takes, old_entity being what the search
\* finds: one of the three returns through spawn, or an arm of the final
\* match, whose Stack arm is unreachable!().
applyArm(w, cmd, old_entity) ==
    IF cmd.mode = "Stack" THEN "spawn"
    ELSE IF ~Has(w, cmd.target, "EffectedBy") THEN "spawn"
    ELSE IF old_entity = NoEntity THEN "spawn"
    ELSE CASE cmd.mode = "Stack" -> "unreachable"
           [] cmd.mode = "Insert" -> "insert"
           [] cmd.mode = "Merge" -> "merge"

\* One command of the queue applied to the world.
ApplyOne(w, reg, cmd, old_entity) ==
    IF cmd.kind = "Despawn" THEN Despawn(w, cmd.entity)
    ELSE apply(w, reg, cmd, old_entity)

(***************************************************************************)
(* Per-frame maintenance                                                   *)
(***************************************************************************)
\* The entities a Query over component kind k visits: disabled entities are
\* filtered out.
Query(w, k) == {e \in DOMAIN w : k \in DOMAIN w[e] /\ "Disabled" \notin DOMAIN w[e]}

\* Every timer of kind k the query visits, ticked by a Time::delta() of dt
\* whole seconds.
TickAll(w, k, dt) ==
    [e \in DOMAIN w |->
        IF e \in Query(w, k)
        THEN [w[e] EXCEPT ![k].timer = TimerTick(@, from_secs(dt))]
        ELSE w[e]]

\* The entities of set S as a sequence, in ascending order.
RECURSIVE Ascending(_)
Ascending(S) ==
    IF S = {} THEN <<>>
    ELSE LET m == CHOOSE x \in S : \A y \in S : x <= y
         IN  <<m>> \o Ascending(S \ {m})

\* A maintenance step that despawns on any finished effect timer.
FinishedTimers(w) ==
    {e \in DOMAIN w : \E k \in TimerKinds :
        e \in Query(w, k) /\ w[e][k].timer.finished}

\* despawn_finished_lifetimes: the entities whose Lifetime is finished after
\* the tick, for each of which a despawn command is queued.
FinishedLifetimes(w) ==
    {e \in Query(w, "Lifetime") : w[e]["Lifetime"].timer.finished}

(***************************************************************************)
(* The state machine                                                       *)
(***************************************************************************)
\* Lifetime::default(): what the timer harness holds while it is not in use.
IdleTimer == EffectTimerNew("Lifetime", DurationZero)

harness == <<result, other, merges, before, calls>>

engine == <<world, queue, registry, plugin, phase, delta, issued, batch, age>>

\* A world of targets only, each carrying a Name.
InitWorld == [t \in Targets |-> [Name |-> "Target"]]

\* Either a bare World (no plugin, no registry: the worlds of the spawn tests)
\* or an App with AlchemyPlugin, about to run its first frame.
Init ==
    /\ world = InitWorld
    /\ queue = <<>>
    /\ plugin \in BOOLEAN
    /\ registry = IF plugin THEN PluginRegistry ELSE NoRegistry
    /\ phase = IF plugin THEN "PreUpdate" ELSE "Update"
    /\ delta = 0
    /\ issued = 0
    /\ batch = <<>>
    /\ age = <<>>
    /\ result = IdleTimer /\ other = IdleTimer /\ merges = 0 /\ before = <<>>
    /\ calls = <<>>

\* An App with AlchemyPlugin alone where the stack counter's registration is
\* expected: no StackPlugin is added.
StackInitWithoutStackPlugin ==
    /\ world = InitWorld
    /\ queue = <<>>
    /\ plugin = TRUE
    /\ registry = PluginRegistry
    /\ phase = "PreUpdate"
    /\ delta = 0
    /\ issued = 0
    /\ batch = <<>>
    /\ age = <<>>
    /\ result = IdleTimer /\ other = IdleTimer /\ merges = 0 /\ before = <<>>
    /\ calls = <<>>

\* An App whose stack plugin registers merge_effect_stacks for the MyEffect
\* payload: register::<MyEffect>(merge_effect_stacks).
StackInitRegistersForPayload ==
    /\ world = InitWorld
    /\ queue = <<>>
    /\ plugin = TRUE
    /\ registry = register(PluginRegistry, "MyEffect", "merge_effect_stacks")
    /\ phase = "PreUpdate"
    /\ delta = 0
    /\ issued = 0
    /\ batch = <<>>
    /\ age = <<>>
    /\ result = IdleTimer /\ other = IdleTimer /\ merges = 0 /\ before = <<>>
    /\ calls = <<>>

\* An App whose built-in registrations are those of Lifetime, Delay and
\* EffectStacks: AlchemyPlugin with the StackPlugin added, about to run its
\* first frame.
StackInit ==
    /\ world = InitWorld
    /\ queue = <<>>
    /\ plugin = TRUE
    /\ registry = StackPluginRegistry
    /\ phase = "PreUpdate"
    /\ delta = 0
    /\ issued = 0
    /\ batch = <<>>
    /\ age = <<>>
    /\ result = IdleTimer /\ other = IdleTimer /\ merges = 0 /\ before = <<>>
    /\ calls = <<>>

\* A bare World, an App with AlchemyPlugin, or an App with the StackPlugin
\* as well.
StackOrInit == Init \/ StackInit

\* The bundles game logic applies: a MyEffect payload, or a stack counter with
\* a lifetime and a delay (the timed, stack-counting bundle of the poison
\* example).
Bundles ==
    {[MyEffect |-> v] : v \in PayloadValues}
    \cup {[EffectStacks |-> 1,
           Lifetime |-> from_seconds("Lifetime", ExampleLifetime),
           Delay |-> from_seconds("Delay", ExampleDelay)]}

\* A queue that takes a new command at its front.
QueueApplyFront(t, n, m, b) ==
    /\ phase = "Update"
    /\ issued < MaxCommands
    /\ issued = 0 => (t = 1 /\ n = "a")
    /\ queue' = <<AddEffectCommand(t, n, m, b)>> \o queue
    /\ issued' = issued + 1
    /\ UNCHANGED <<world, registry, plugin, phase, delta, batch, age, harness>>

\* Game logic, during Update, queues an AddEffectCommand (with_effect,
\* EffectSpawner::spawn, EffectedBy::spawn). Targets are interchangeable and
\* so are names: the first command of a run is taken to name target 1 and
\* name "a", every later one is free.
QueueApply(t, n, m, b) ==
    /\ phase = "Update"
    /\ issued < MaxCommands
    /\ issued = 0 => (t = 1 /\ n = "a")
    /\ queue' = Append(queue, AddEffectCommand(t, n, m, b))
    /\ issued' = issued + 1
    /\ UNCHANGED <<world, registry, plugin, phase, delta, batch, age, harness>>

\* The Update schedule ends (or the test calls World::flush): the queued
\* commands are about to be applied.
EndUpdate ==
    /\ phase = "Update"
    /\ phase' = "Flush"
    /\ batch' = queue
    /\ UNCHANGED <<world, queue, registry, plugin, delta, issued, age, harness>>

\* The entity an AddEffectCommand writes to: the one found, else a new one.
Written(w, cmd, old_entity) ==
    IF old_entity = NoEntity THEN FreshEntity(w) ELSE old_entity

\* The ages after a step to world w that wrote to the entities ws: a written
\* or new entity starts at 0, an entity without a Lifetime has none.
AgesAfter(w, ws) ==
    [e \in {x \in DOMAIN w : "Lifetime" \in DOMAIN w[x]} |->
        IF e \in ws \/ e \notin DOMAIN age THEN 0 ELSE age[e]]

\* The command at the head of the queue is applied, to completion.
ApplyCommand ==
    /\ phase \in {"Flush", "Sync"}
    /\ queue # <<>>
    /\ \E old_entity \in OldEntities(world, Head(queue)) :
           /\ world' = ApplyOne(world, registry, Head(queue), old_entity)
           /\ age' = AgesAfter(world',
                        IF Head(queue).kind = "AddEffect"
                        THEN {Written(world, Head(queue), old_entity)}
                        ELSE {})
    /\ queue' = Tail(queue)
    /\ UNCHANGED <<registry, plugin, phase, delta, issued, batch, harness>>

\* The queue is drained: the next frame starts, with PreUpdate when the
\* plugin's systems are installed.
EndFrame ==
    /\ phase = "Flush"
    /\ queue = <<>>
    /\ phase' = IF plugin THEN "PreUpdate" ELSE "Update"
    /\ batch' = <<>>
    /\ UNCHANGED <<world, queue, registry, plugin, delta, issued, age, harness>>

\* A despawn_finished_lifetimes that checks is_finished before it ticks.
DespawnBeforeTick(d) ==
    /\ phase = "PreUpdate"
    /\ LET finished == Ascending(FinishedLifetimes(world))
       IN  /\ world' = TickAll(world, "Lifetime", d)
           /\ queue' = queue \o [i \in 1..Len(finished) |->
                                    DespawnCommand(finished[i])]
    /\ age' = [e \in DOMAIN age |->
                  IF e \in Query(world, "Lifetime") THEN age[e] + d ELSE age[e]]
    /\ delta' = d
    /\ phase' = "Sync"
    /\ UNCHANGED <<registry, plugin, issued, batch, harness>>

\* despawn_finished_lifetimes, in a frame whose delta is d: every Lifetime is
\* ticked, and a despawn is queued for each entity whose Lifetime is finished.
DespawnFinishedLifetimes(d) ==
    /\ phase = "PreUpdate"
    /\ LET w == TickAll(world, "Lifetime", d)
           finished == Ascending(FinishedLifetimes(w))
       IN  /\ world' = w
           /\ queue' = queue \o [i \in 1..Len(finished) |->
                                    DespawnCommand(finished[i])]
    /\ age' = [e \in DOMAIN age |->
                  IF e \in Query(world, "Lifetime") THEN age[e] + d ELSE age[e]]
    /\ delta' = d
    /\ phase' = "Sync"
    /\ UNCHANGED <<registry, plugin, issued, batch, harness>>

\* A tick_delay that runs, and lets Update start, before the commands of
\* despawn_finished_lifetimes are applied.
TickDelayBeforeSync ==
    /\ phase = "Sync"
    /\ world' = TickAll(world, "Delay", delta)
    /\ delta' = 0
    /\ phase' = "Update"
    /\ UNCHANGED <<queue, registry, plugin, issued, batch, age, harness>>

\* tick_delay, chained after despawn_finished_lifetimes and the application of
\* its commands: every Delay is ticked.
TickDelay ==
    /\ phase = "Sync"
    /\ queue = <<>>
    /\ world' = TickAll(world, "Delay", delta)
    /\ delta' = 0
    /\ phase' = "Update"
    /\ UNCHANGED <<queue, registry, plugin, issued, batch, age, harness>>

Next ==
    \/ \E t \in Targets, n \in Names, m \in EffectModes, b \in Bundles :
           QueueApply(t, n, m, b)
    \/ EndUpdate
    \/ ApplyCommand
    \/ EndFrame
    \/ \E d \in Deltas : DespawnFinishedLifetimes(d)
    \/ TickDelay

Spec == Init /\ [][Next]_vars

(***************************************************************************)
(* One effect applied over and over: every command names target 1 and name *)
(* "a", as the commands of spawnable_list_mixed and of the poison example  *)
(* do, in any mode, with a MyEffect payload or a default stack counter.    *)
(***************************************************************************)
\* Most AddEffectCommands queued in one run of the repeated effect.
MaxMixed == 4

\* EffectBundle { bundle: MyEffect(v), .. }
MixedBundles == {[MyEffect |-> v] : v \in PayloadValues}

\* EffectBundle { mode: Merge, bundle: EffectStacks::default(), .. }
StackCounterBundle == [EffectStacks |-> 1]

\* Game logic queues one more application of effect "a" to target 1.
QueueMixed(m, b) ==
    /\ phase = "Update"
    /\ issued < MaxMixed
    /\ queue' = Append(queue, AddEffectCommand(1, "a", m, b))
    /\ issued' = issued + 1
    /\ UNCHANGED <<world, registry, plugin, phase, delta, batch, age, harness>>

MixedNext ==
    \/ \E m \in EffectModes, b \in MixedBundles : QueueMixed(m, b)
    \/ QueueMixed("Merge", StackCounterBundle)
    \/ EndUpdate
    \/ ApplyCommand
    \/ EndFrame
    \/ \E d \in Deltas : DespawnFinishedLifetimes(d)
    \/ TickDelay

MixedSpec == StackOrInit /\ [][MixedNext]_vars

(***************************************************************************)
(* Effects side by side: MyEffect payloads applied to any target under any *)
(* name in Insert or Merge mode, one command more than the general run     *)
(* allows, so that a collision happens next to effects it does not concern.*)
(***************************************************************************)
\* Most AddEffectCommands queued in one run of the side-by-side effects.
MaxCollide == 3

\* The modes whose applications search for an effect to write to.
CollisionModes == {"Insert", "Merge"}

\* Game logic queues an application of a MyEffect payload. As in QueueApply,
\* the first command of a run is taken to name target 1 and name "a".
QueueCollide(t, n, m, v) ==
    /\ phase = "Update"
    /\ issued < MaxCollide
    /\ issued = 0 => (t = 1 /\ n = "a")
    /\ queue' = Append(queue, AddEffectCommand(t, n, m, [MyEffect |-> v]))
    /\ issued' = issued + 1
    /\ UNCHANGED <<world, registry, plugin, phase, delta, batch, age, harness>>

CollideNext ==
    \/ \E t \in Targets, n \in Names, m \in CollisionModes,
          v \in PayloadValues : QueueCollide(t, n, m, v)
    \/ EndUpdate
    \/ ApplyCommand
    \/ EndFrame
    \/ \E d \in Deltas : DespawnFinishedLifetimes(d)
    \/ TickDelay

CollideSpec == Init /\ [][CollideNext]_vars

(***************************************************************************)
(* Timed effects colliding: one effect of target 1, applied in Insert or   *)
(* Merge mode with a Lifetime or a Delay of any TimerMergeMode, or with a  *)
(* MyEffect payload and no timer, while frames tick the timers.            *)
(***************************************************************************)
\* Most AddEffectCommands queued in one run of the timed effects.
MaxTimed == 2

\* EffectBundle { bundle: T::from_seconds(2.0).with_mode(m), .. } for T one
\* of Lifetime and Delay, EffectBundle { bundle: MyEffect(0), .. }, and a
\* bundle of a Lifetime and a Delay in their default merge modes.
TimedBundles ==
    {[Lifetime |-> WithMode(from_seconds("Lifetime", ExampleLifetime), m)] :
        m \in TimerMergeModes}
    \cup {[Delay |-> WithMode(from_seconds("Delay", ExampleLifetime), m)] :
        m \in TimerMergeModes}
    \cup {[MyEffect |-> 0]}
    \cup {[Lifetime |-> from_seconds("Lifetime", ExampleLifetime),
           Delay |-> from_seconds("Delay", ExampleLifetime)]}

\* Game logic queues one more application of effect "a" to target 1.
QueueTimed(m, b) ==
    /\ phase = "Update"
    /\ issued < MaxTimed
    /\ queue' = Append(queue, AddEffectCommand(1, "a", m, b))
    /\ issued' = issued + 1
    /\ UNCHANGED <<world, registry, plugin, phase, delta, batch, age, harness>>

TimedNext ==
    \/ \E m \in CollisionModes, b \in TimedBundles : QueueTimed(m, b)
    \/ EndUpdate
    \/ ApplyCommand
    \/ EndFrame
    \/ \E d \in Deltas : DespawnFinishedLifetimes(d)
    \/ TickDelay

TimedSpec == Init /\ [][TimedNext]_vars

(***************************************************************************)
(* Timed effects with game logic in PreUpdate as well: a system of the     *)
(* application that runs in PreUpdate, not ordered against the plugin's    *)
(* systems, queues its AddEffectCommands in the same schedule as           *)
(* despawn_finished_lifetimes queues its despawns. Where it comes first,   *)
(* its commands are applied first at the sync point.                       *)
(***************************************************************************)
\* A PreUpdate system of the application queues one more application of
\* effect "a" to target 1, ahead of this frame's maintenance.
QueueEarly(m, b) ==
    /\ phase = "PreUpdate"
    /\ issued < MaxTimed
    /\ queue' = Append(queue, AddEffectCommand(1, "a", m, b))
    /\ issued' = issued + 1
    /\ UNCHANGED <<world, registry, plugin, phase, delta, batch, age, harness>>

RaceNext ==
    \/ \E m \in CollisionModes, b \in TimedBundles : QueueEarly(m, b)
    \/ \E m \in CollisionModes, b \in TimedBundles : QueueTimed(m, b)
    \/ EndUpdate
    \/ ApplyCommand
    \/ EndFrame
    \/ \E d \in Deltas : DespawnFinishedLifetimes(d)
    \/ TickDelay

RaceSpec == Init /\ [][RaceNext]_vars

(***************************************************************************)
(* The timer harness: two timers of one kind, ticked and merged as the     *)
(* timer tests do.                                                         *)
(***************************************************************************)
IdleEngine ==
    /\ world = InitWorld /\ queue = <<>> /\ registry = NoRegistry
    /\ plugin = FALSE /\ phase = "Update" /\ delta = 0 /\ issued = 0
    /\ batch = <<>> /\ age = <<>>

\* T::from_seconds(d1).with_mode(m1) and T::from_seconds(d2).with_mode(m2)
TimerInit ==
    /\ IdleEngine
    /\ \E kind \in TimerKinds, d1, d2 \in 0..MaxDuration,
          m1, m2 \in TimerMergeModes :
           /\ result = WithMode(from_seconds(kind, d1), m1)
           /\ other = WithMode(from_seconds(kind, d2), m2)
    /\ merges = 0
    /\ before = <<>>
    /\ calls = <<>>

\* result.timer.tick(dt)
TickResult(dt) ==
    /\ merges < MaxMerges
    /\ result' = [result EXCEPT !.timer = TimerTick(@, dt)]
    /\ before' = <<>>
    /\ UNCHANGED <<engine, other, merges, calls>>

\* other.timer.tick(dt)
TickOther(dt) ==
    /\ merges < MaxMerges
    /\ other' = [other EXCEPT !.timer = TimerTick(@, dt)]
    /\ before' = <<>>
    /\ UNCHANGED <<engine, result, merges, calls>>

\* result.merge(&other)
Merge ==
    /\ merges < MaxMerges
    /\ result' = TimerMerge(result, other)
    /\ merges' = merges + 1
    /\ before' = <<result>>
    /\ UNCHANGED <<engine, other, calls>>

\* The merged timer becomes the one merged into a new timer:
\* let mut next = T::from_seconds(d).with_mode(m); next.merge(&result)
Chain(d, m) ==
    /\ merges > 0 /\ merges < MaxMerges
    /\ other' = result
    /\ result' = WithMode(from_seconds(
                     IF result.timer.mode = "Once" THEN "Lifetime" ELSE "Delay",
                     d), m)
    /\ before' = <<>>
    /\ UNCHANGED <<engine, merges, calls>>

TimerNext ==
    \/ \E dt \in Deltas : TickResult(from_secs(dt))
    \/ \E dt \in Deltas : TickOther(from_secs(dt))
    \/ Merge
    \/ \E d \in 0..MaxDuration, m \in TimerMergeModes : Chain(d, m)

TimerSpec == TimerInit /\ [][TimerNext]_vars

(***************************************************************************)
(* The timer harness with Durations that are not whole seconds: two        *)
(* Lifetimes built with Lifetime::new, ticked by a frame of a tenth of a   *)
(* second and merged.                                                      *)
(***************************************************************************)
\* Duration::ZERO, Duration::from_millis(100) and
\* Duration::from_nanos(300_000_004)
NanoDurations ==
    {DurationZero, DurationNew(0, 100000000), DurationNew(0, 300000004)}

\* Time::delta() of a frame: Duration::from_millis(100)
NanoDeltas == {DurationNew(0, 100000000)}

\* Lifetime::new(d1).with_mode(m1) and Lifetime::new(d2).with_mode(m2)
NanosInit ==
    /\ IdleEngine
    /\ \E d1, d2 \in NanoDurations, m1, m2 \in TimerMergeModes :
           /\ result = WithMode(EffectTimerNew("Lifetime", d1), m1)
           /\ other = WithMode(EffectTimerNew("Lifetime", d2), m2)
    /\ merges = 0
    /\ before = <<>>
    /\ calls = <<>>

NanosNext ==
    \/ \E dt \in NanoDeltas : TickResult(dt)
    \/ \E dt \in NanoDeltas : TickOther(dt)
    \/ Merge

NanosSpec == NanosInit /\ [][NanosNext]_vars

(***************************************************************************)
(* The timer harness for the Fraction arm: a Lifetime in Fraction mode and *)
(* another Lifetime, of durations of whole seconds and of fractions of a   *)
(* second; the first is ticked by frames of a second, the other by frames  *)
(* of a second and of a tenth of a second, and they are merged.            *)
(***************************************************************************)
\* Duration::ZERO, Duration::from_millis(100),
\* Duration::from_nanos(300_000_004) and Duration::from_secs(1), (2), (3)
FractionDurations ==
    NanoDurations \cup {from_secs(1), from_secs(2), from_secs(3)}

\* Time::delta() of a frame: Duration::from_millis(100), Duration::from_secs(1)
FractionDeltas == NanoDeltas \cup {from_secs(1)}

\* Lifetime::new(d1).with_mode(TimerMergeMode::Fraction) and
\* Lifetime::new(d2)
FractionInit ==
    /\ IdleEngine
    /\ \E d1, d2 \in FractionDurations :
           /\ result = WithMode(EffectTimerNew("Lifetime", d1), "Fraction")
           /\ other = EffectTimerNew("Lifetime", d2)
    /\ merges = 0
    /\ before = <<>>
    /\ calls = <<>>

FractionNext ==
    \/ TickResult(from_secs(1))
    \/ \E dt \in FractionDeltas : TickOther(dt)
    \/ Merge

FractionSpec == FractionInit /\ [][FractionNext]_vars

(***************************************************************************)
(* The registry on its own: a world with the EffectMergeRegistry resource, *)
(* and merge functions registered for component kinds in any order, as the *)
(* plugins and the registry's example do.                                  *)
(***************************************************************************)
\* Most register calls in one run.
MaxRegisters == 3

\* The component kinds T of register::<T>.
RegisteredKinds == {"Lifetime", "Delay", "EffectStacks"}

\* The merge functions f of register::<T>(f).
MergeFns == {"merge_timer", "merge_effect_stacks"}

\* world.init_resource::<EffectMergeRegistry>()
RegistryInit ==
    /\ world = InitWorld /\ queue = <<>> /\ registry = EmptyRegistry
    /\ plugin = FALSE /\ phase = "Update" /\ delta = 0 /\ issued = 0
    /\ batch = <<>> /\ age = <<>>
    /\ result = IdleTimer /\ other = IdleTimer /\ merges = 0 /\ before = <<>>
    /\ calls = <<>>

\* world.resource_mut::<EffectMergeRegistry>().register::<kind>(f)
Register(kind, f) ==
    /\ registry.present
    /\ Len(calls) < MaxRegisters
    /\ registry' = register(registry, kind, f)
    /\ calls' = Append(calls, [op |-> "register", kind |-> kind, f |-> f])
    /\ UNCHANGED <<world, queue, plugin, phase, delta, issued, batch, age,
                   result, other, merges, before>>

RegistryNext == \E kind \in RegisteredKinds, f \in MergeFns : Register(kind, f)

RegistrySpec == RegistryInit /\ [][RegistryNext]_vars

(***************************************************************************)
(* A long-running stacked effect: the default stack counter applied to     *)
(* target 1 under name "a" in Merge mode, once a frame, for as many frames *)
(* as it takes the u8 counter to pass its range. merge_effect_stacks adds  *)
(* with a plain += on u8: where the sum overflows, a build with overflow   *)
(* checks panics and a build without them wraps; both are steps here.      *)
(***************************************************************************)
\* Most AddEffectCommands queued in one run of the stacked effect.
MaxStacks == 256

\* Game logic queues one more Merge application of the stack counter, one
\* in a frame.
QueueStacked ==
    /\ phase = "Update"
    /\ issued < MaxStacks
    /\ queue = <<>>
    /\ queue' = Append(queue, AddEffectCommand(1, "a", "Merge", StackCounterBundle))
    /\ issued' = issued + 1
    /\ UNCHANGED <<world, registry, plugin, phase, delta, batch, age, harness>>

\* Applying cmd to old_entity makes merge_effect_stacks add two counters
\* whose sum does not fit a u8.
Overflows(w, reg, cmd, old_entity) ==
    /\ cmd.kind = "AddEffect" /\ cmd.mode = "Merge"
    /\ old_entity # NoEntity
    /\ reg.present
    /\ "EffectStacks" \in DOMAIN reg.merges
    /\ reg.merges["EffectStacks"] = "merge_effect_stacks"
    /\ Has(w, old_entity, "EffectStacks")
    /\ LET st == mergeStages(w, reg, cmd, old_entity) IN
       st[2][old_entity]["EffectStacks"] + w[old_entity]["EffectStacks"] > 255

\* The command at the head of the queue panics in merge_effect_stacks
\* ("attempt to add with overflow"): the run ends there, inside
\* AddEffectCommand::merge. The command is off the queue, the temporary
\* entity is spawned with its copies, the bundle is inserted, the merge
\* functions called before merge_effect_stacks (any of the others: the order
\* is that of the temporary entity's archetype) have run, and the temporary
\* entity is not despawned.
ApplyPanics ==
    /\ phase \in {"Flush", "Sync"}
    /\ queue # <<>>
    /\ \E old_entity \in OldEntities(world, Head(queue)) :
           /\ Overflows(world, registry, Head(queue), old_entity)
           /\ LET st == mergeStages(world, registry, Head(queue), old_entity)
                  temp == FreshEntity(world)
                  others == (DOMAIN st[2][temp] \cap DOMAIN registry.merges)
                                \ {"EffectStacks"}
              IN  \E done \in SUBSET others :
                      world' = [st[2] EXCEPT ![old_entity] =
                                   [k \in DOMAIN @ |->
                                       IF k \in done
                                       THEN CallMergeFn(registry.merges[k], @[k],
                                                        st[2][temp][k])
                                       ELSE @[k]]]
           /\ age' = AgesAfter(world', {old_entity})
    /\ queue' = Tail(queue)
    /\ phase' = "Panicked"
    /\ UNCHANGED <<registry, plugin, delta, issued, batch, harness>>

StackNext ==
    \/ QueueStacked
    \/ EndUpdate
    \/ ApplyCommand
    \/ ApplyPanics
    \/ EndFrame
    \/ \E d \in Deltas : DespawnFinishedLifetimes(d)
    \/ TickDelay

StackSpec == StackInit /\ [][StackNext]_vars

(***************************************************************************)
(* The timer builders: a Lifetime or a Delay made with new / from_seconds, *)
(* given merge modes with with_mode, and ticked in between.                *)
(***************************************************************************)
\* Most builder calls (new, with_mode) in one run.
MaxBuilds == 3

\* Lifetime::default(), before any builder call.
BuildInit ==
    /\ IdleEngine
    /\ result = IdleTimer /\ other = IdleTimer /\ merges = 0 /\ before = <<>>
    /\ calls = <<>>

\* result = T::new(duration), T one of Lifetime and Delay
New(kind, duration) ==
    /\ Len(calls) < MaxBuilds
    /\ result' = EffectTimerNew(kind, duration)
    /\ before' = <<>>
    /\ calls' = Append(calls, [op |-> "new", kind |-> kind,
                                duration |-> duration])
    /\ UNCHANGED <<engine, other, merges>>

\* result = result.with_mode(mode)
SetMode(mode) ==
    /\ Len(calls) < MaxBuilds
    /\ result' = WithMode(result, mode)
    /\ before' = <<result>>
    /\ calls' = Append(calls, [op |-> "with_mode", mode |-> mode])
    /\ UNCHANGED <<engine, other, merges>>

BuildNext ==
    \/ \E kind \in TimerKinds, d \in 0..MaxDuration : New(kind, from_secs(d))
    \/ \E m \in TimerMergeModes : SetMode(m)
    \/ \E dt \in Deltas : TickResult(from_secs(dt))

BuildSpec == BuildInit /\ [][BuildNext]_vars

(***************************************************************************)
(* Merge collisions over every combination of component kinds: effect "a"  *)
(* of target 1 applied in Merge mode with a bundle of any subset of a      *)
(* Lifetime, a Delay, a stack counter and a MyEffect payload.              *)
(***************************************************************************)
\* Most AddEffectCommands queued in one run of the kind combinations.
MaxKinds == 2

\* The component kinds a bundle is made of.
BundleKinds == {"Lifetime", "Delay", "EffectStacks", "MyEffect"}

\* The component of kind k the bundles carry.
KindValue(k) ==
    CASE k = "Lifetime" -> from_seconds("Lifetime", ExampleLifetime)
      [] k = "Delay" -> from_seconds("Delay", ExampleDelay)
      [] k = "EffectStacks" -> 1
      [] k = "MyEffect" -> 0

\* EffectBundle { bundle: (..), .. } for every set of kinds, the unit bundle
\* included.
KindBundles == {[k \in K |-> KindValue(k)] : K \in SUBSET BundleKinds}

\* Game logic queues one more Merge application of effect "a" to target 1.
QueueKinds(b) ==
    /\ phase = "Update"
    /\ issued < MaxKinds
    /\ queue' = Append(queue, AddEffectCommand(1, "a", "Merge", b))
    /\ issued' = issued + 1
    /\ UNCHANGED <<world, registry, plugin, phase, delta, batch, age, harness>>

KindsNext ==
    \/ \E b \in KindBundles : QueueKinds(b)
    \/ EndUpdate
    \/ ApplyCommand
    \/ EndFrame
    \/ \E d \in Deltas : DespawnFinishedLifetimes(d)
    \/ TickDelay

KindsSpec == StackOrInit /\ [][KindsNext]_vars

(***************************************************************************)
(* Properties                                                              *)
(***************************************************************************)
\* The effects acting on target t under name n in mode m.
Instances(w, t, n, m) ==
    {e \in Effects(w) :
        /\ Has(w, e, "Effecting") /\ w[e]["Effecting"] = t
        /\ Has(w, e, "Name") /\ w[e]["Name"] = n
        /\ w[e]["EffectMode"] = m}

\* This step applies the AddEffectCommand of mode m at the head of the queue.
Applying(m) ==
    /\ phase \in {"Flush", "Sync"}
    /\ queue # <<>>
    /\ Head(queue).kind = "AddEffect"
    /\ Head(queue).mode = m
    /\ queue' = Tail(queue)

\* Entity e carries every component of bundle b, with b's value.
Holds(w, e, b) == \A k \in DOMAIN b : Has(w, e, k) /\ w[e][k] = b[k]

\* C1: in every reachable state, for each target, name and mode Insert or
\* Merge, at most one effect acts on that target with that name and mode.
C1_AtMostOneInstance ==
    \A t \in Targets, n \in Names, m \in {"Insert", "Merge"} :
        Cardinality(Instances(world, t, n, m)) <= 1

\* A Merge effect that two applications went into (it carries the components
\* of both kinds of bundle), ticked since, and alone under its name.
C1_Witness ==
    \E e \in Effects(world) :
        /\ world[e]["EffectMode"] = "Merge"
        /\ Has(world, e, "MyEffect") /\ Has(world, e, "Lifetime")
        /\ world[e]["Lifetime"].timer.elapsed # DurationZero
        /\ Instances(world, world[e]["Effecting"], world[e]["Name"], "Merge") = {e}

\* C2: a step applying a Stack command adds exactly one entity, which carries
\* the command's target, name, mode and bundle and is in the target's relation
\* set, and leaves every effect that existed as it was.
C2_StackSpawnsOne ==
    [][Applying("Stack") =>
        LET cmd == Head(queue) IN
        \E id \in DOMAIN world' \ DOMAIN world :
            /\ DOMAIN world' = DOMAIN world \cup {id}
            /\ world'[id] = cmd.bundle @@
                   [Effecting |-> cmd.target, Name |-> cmd.name,
                    EffectMode |-> "Stack"]
            /\ id \in EffectedBy(world', cmd.target)
            /\ \A e \in Effects(world) : world'[e] = world[e]]_vars

\* Two Stack applications of one name to one target: two instances, each with
\* its own payload.
C2_Witness ==
    \E e1, e2 \in Effects(world) :
        /\ e1 # e2
        /\ world[e1]["EffectMode"] = "Stack" /\ world[e2]["EffectMode"] = "Stack"
        /\ world[e1]["Effecting"] = world[e2]["Effecting"]
        /\ world[e1]["Name"] = world[e2]["Name"]
        /\ Has(world, e1, "MyEffect") /\ Has(world, e2, "MyEffect")
        /\ world[e1]["MyEffect"] = 0 /\ world[e2]["MyEffect"] = 1

\* C3: after a step applying an Insert command exactly one effect acts on the
\* command's target under its name in Insert mode, and that effect carries
\* every component of the command's bundle with the command's value.
C3_InsertHoldsLatest ==
    [][Applying("Insert") =>
        LET cmd == Head(queue) IN
        \E e \in Effects(world') :
            /\ Instances(world', cmd.target, cmd.name, "Insert") = {e}
            /\ Holds(world', e, cmd.bundle)]_vars

\* One flush applied Insert MyEffect(0) and then Insert MyEffect(1) to the
\* same target and name: one instance, holding 1.
C3_Witness ==
    /\ phase = "Flush" /\ queue = <<>> /\ Len(batch) = 2
    /\ batch[1].mode = "Insert" /\ batch[2].mode = "Insert"
    /\ batch[1].target = batch[2].target /\ batch[1].name = batch[2].name
    /\ batch[1].bundle = [MyEffect |-> 0] /\ batch[2].bundle = [MyEffect |-> 1]
    /\ \E e \in Effects(world) :
           /\ Effects(world) = {e}
           /\ world[e]["EffectMode"] = "Insert" /\ world[e]["MyEffect"] = 1

\* C4: after a step applying a Merge command that matches an effect, with the
\* registry present, that effect is the only instance; each registered kind it
\* carried holds the merge function's result on (incoming, previous), and is
\* unchanged when the bundle has no incoming value of the kind; each
\* unregistered kind of the bundle holds the incoming value.
C4_MergeCombines ==
    [][(Applying("Merge") /\ registry.present /\ Matches(world, Head(queue)) # {}) =>
        LET cmd == Head(queue) IN
        \E e \in Matches(world, cmd) :
            /\ Instances(world', cmd.target, cmd.name, "Merge") = {e}
            /\ \A k \in DOMAIN world[e] \cap DOMAIN registry.merges :
                   /\ Has(world', e, k)
                   /\ world'[e][k] =
                         IF k \in DOMAIN cmd.bundle
                         THEN CallMergeFn(registry.merges[k], cmd.bundle[k],
                                          world[e][k])
                         ELSE world[e][k]
            /\ \A k \in DOMAIN cmd.bundle \ DOMAIN registry.merges :
                   Has(world', e, k) /\ world'[e][k] = cmd.bundle[k]]_vars

\* C5: after a step applying a Merge command that matches an effect, in a
\* world without the registry, the matched effect carries every component of
\* the command's bundle with the command's value.
C5_MergeWithoutRegistryOverwrites ==
    [][(Applying("Merge") /\ ~registry.present /\ Matches(world, Head(queue)) # {}) =>
        \E e \in Matches(world, Head(queue)) :
            Holds(world', e, Head(queue).bundle)]_vars

\* C6: in every reachable state the relation set of each target is exactly
\* the set of live entities whose Effecting points to it.
C6_RelationIsBackReferences ==
    \A t \in Targets :
        EffectedBy(world, t) =
            {e \in DOMAIN world :
                Has(world, e, "Effecting") /\ world[e]["Effecting"] = t}

\* Two commands were applied and the one effect left is a Stack effect, which
\* no other command writes to: the other command's effect was spawned and has
\* been despawned, and the one left is the relation set of its target.
C6_Witness ==
    /\ plugin /\ issued = 2 /\ queue = <<>>
    /\ \E e \in Effects(world) :
           /\ Effects(world) = {e}
           /\ world[e]["EffectMode"] = "Stack"
           /\ EffectedBy(world, world[e]["Effecting"]) = {e}

\* An effect whose Lifetime has been ticked, since a command last wrote to
\* the effect, by at least the Lifetime's duration is alive only between the
\* tick that finished it and the application of the despawn that tick queued
\* for it; and a relation set holds live entities only.
ExpiredIsBeingDespawned ==
    /\ \A e \in DOMAIN age :
           (Has(world, e, "Lifetime")
            /\ DurationLe(world[e]["Lifetime"].timer.duration,
                          from_secs(age[e])))
           => (phase = "Sync"
               /\ \E i \in 1..Len(queue) : queue[i] = DespawnCommand(e))
    /\ \A t \in Targets : EffectedBy(world, t) \subseteq DOMAIN world

\* A despawn queued by the maintenance step is what the next step applies,
\* and the entity is then gone from the world and from every relation set.
QueuedDespawnIsApplied ==
    (phase = "Sync" /\ queue # <<>> /\ Head(queue).kind = "Despawn") =>
        /\ queue' = Tail(queue)
        /\ Head(queue).entity \notin DOMAIN world'
        /\ \A t \in Targets : Head(queue).entity \notin EffectedBy(world', t)

\* C7: an effect whose Lifetime of duration D has been ticked by at least D
\* since the last application to it has its despawn queued by the tick that
\* reached D, and the very next steps apply it: it is then absent from the
\* world and from its target's relation set.
C7_ExpiredLifetimeDespawned ==
    []ExpiredIsBeingDespawned /\ [][QueuedDespawnIsApplied]_vars

\* The one effect of the run has been despawned by this frame's maintenance:
\* no effect is left, in the world or in a relation set.
C7_Witness ==
    /\ plugin /\ issued = 1 /\ queue = <<>> /\ phase = "Sync" /\ delta = 1
    /\ Effects(world) = {}
    /\ \A t \in Targets : EffectedBy(world, t) = {}

\* Command i of the batch is an Insert that no later command of the batch
\* repeats for the same target and name.
LastInsertOfBatch(i) ==
    /\ batch[i].mode = "Insert"
    /\ \A j \in (i + 1)..Len(batch) :
           ~(/\ batch[j].mode = "Insert"
             /\ batch[j].target = batch[i].target
             /\ batch[j].name = batch[i].name)

\* When the flush of a batch is complete, the instance of each (target, name)
\* the batch inserted into holds the bundle of the last such Insert.
BatchLastInsertWins ==
    (phase = "Flush" /\ queue = <<>>) =>
        \A i \in 1..Len(batch) :
            LastInsertOfBatch(i) =>
                \E e \in Effects(world) :
                    /\ Instances(world, batch[i].target, batch[i].name,
                                 "Insert") = {e}
                    /\ Holds(world, e, batch[i].bundle)

\* The queue changes only by a command joining at its back or by the command
\* at its front being applied in full, and during a flush the world changes
\* only by the command at the front of the queue being applied in full.
QueueIsFifo ==
    /\ queue' # queue =>
        \/ /\ Len(queue') > Len(queue)
           /\ SubSeq(queue', 1, Len(queue)) = queue
        \/ /\ queue # <<>> /\ queue' = Tail(queue)
           /\ \E o \in OldEntities(world, Head(queue)) :
                  world' = ApplyOne(world, registry, Head(queue), o)
    /\ (phase = "Flush" /\ world' # world) =>
        /\ queue # <<>> /\ queue' = Tail(queue)
        /\ \E o \in OldEntities(world, Head(queue)) :
               world' = ApplyOne(world, registry, Head(queue), o)

\* C8: queued commands are applied oldest first, one whole command per step,
\* and of several Inserts of one (target, name) queued together the last one
\* enqueued is the one whose bundle the instance holds after the flush.
C8_AppliedInQueueOrder == []BatchLastInsertWins /\ [][QueueIsFifo]_vars

\* One flush applied Insert MyEffect(1) and then Insert MyEffect(0) to the
\* same target and name: the instance holds 0, the later bundle.
C8_Witness ==
    /\ phase = "Flush" /\ queue = <<>> /\ Len(batch) = 2
    /\ batch[1].mode = "Insert" /\ batch[2].mode = "Insert"
    /\ batch[1].target = batch[2].target /\ batch[1].name = batch[2].name
    /\ batch[1].bundle = [MyEffect |-> 1] /\ batch[2].bundle = [MyEffect |-> 0]
    /\ \E e \in Effects(world) :
           /\ Instances(world, batch[2].target, batch[2].name, "Insert") = {e}
           /\ world[e]["MyEffect"] = 0

\* C9: a merge with self in Replace mode leaves self as it was: duration,
\* elapsed time, the rest of the timer and the merge mode.
C9_ReplaceKeepsSelf ==
    [][(merges' = merges + 1 /\ result.mode = "Replace") => result' = result]_vars

\* A Replace-mode timer was merged with a different, ticked timer and is as
\* it was before.
C9_Witness ==
    /\ before # <<>>
    /\ before[1].mode = "Replace"
    /\ before[1].timer # other.timer /\ other.timer.elapsed # DurationZero
    /\ result = before[1]

\* C10: a merge with self in Keep mode gives self the other timer's duration
\* and elapsed time (the whole of its timer), keeps self's merge mode, and
\* makes self equal to other when both carry the same merge mode.
C10_KeepTakesOther ==
    [][(merges' = merges + 1 /\ result.mode = "Keep") =>
        /\ result'.timer.duration = other.timer.duration
        /\ result'.timer.elapsed = other.timer.elapsed
        /\ result'.timer = other.timer
        /\ result'.mode = result.mode
        /\ (other.mode = result.mode => result' = other)]_vars

\* A Keep-mode timer was merged with a Keep-mode timer of another duration
\* that had been ticked, and now equals it.
C10_Witness ==
    /\ before # <<>>
    /\ before[1].mode = "Keep" /\ other.mode = "Keep"
    /\ before[1].timer.duration # other.timer.duration
    /\ before[1].timer.elapsed # other.timer.elapsed
    /\ result = other

\* This step is a merge call made with self in merge mode m.
Merging(m) == merges' = merges + 1 /\ result.mode = m

\* Whole numbers beyond the machine integers, for the products of two
\* Durations in nanoseconds: a sequence of digits in base 10000, the least
\* significant first.
Digit(a, i) == IF i <= Len(a) THEN a[i] ELSE 0

\* The digits s with carry c brought into range.
RECURSIVE Carried(_, _)
Carried(s, c) ==
    IF s = <<>>
    THEN IF c = 0 THEN <<>> ELSE <<c % 10000>> \o Carried(<<>>, c \div 10000)
    ELSE LET v == Head(s) + c
         IN  <<v % 10000>> \o Carried(Tail(s), v \div 10000)

\* Duration d in nanoseconds.
Nanoseconds(d) ==
    Carried(<<d.nanos % 10000, (d.nanos \div 10000) % 10000,
              d.nanos \div 100000000 + 10 * d.secs>>, 0)

\* a[1] * b[k] + ... + a[i] * b[k + 1 - i]
RECURSIVE DigitProducts(_, _, _, _)
DigitProducts(a, b, k, i) ==
    IF i = 0 THEN 0
    ELSE Digit(a, i) * Digit(b, k + 1 - i) + DigitProducts(a, b, k, i - 1)

\* a * b
Times(a, b) ==
    Carried([k \in 1..(Len(a) + Len(b)) |-> DigitProducts(a, b, k, k)], 0)

\* a + b
Plus(a, b) ==
    Carried([k \in 1..(IF Len(a) > Len(b) THEN Len(a) ELSE Len(b)) |->
                Digit(a, k) + Digit(b, k)], 0)

\* a <= b on the digits i and below, the higher digits being equal.
RECURSIVE AtMostFrom(_, _, _)
AtMostFrom(a, b, i) ==
    IF i = 0 THEN TRUE
    ELSE IF Digit(a, i) # Digit(b, i) THEN Digit(a, i) < Digit(b, i)
    ELSE AtMostFrom(a, b, i - 1)

\* a <= b
AtMost(a, b) == AtMostFrom(a, b, IF Len(a) > Len(b) THEN Len(a) ELSE Len(b))

\* Timer o has elapsed a whole number of seconds of a duration of a whole
\* number of seconds, and d is a whole number of seconds.
InWholeSeconds(d, o) ==
    d.nanos = 0 /\ o.elapsed.nanos = 0 /\ o.duration.nanos = 0

\* The fraction of its duration that timer o has elapsed, as a numerator and
\* a denominator in nanoseconds; a timer of zero duration counts as wholly
\* elapsed, 1 / 1.
FractionOf(o) ==
    IF o.duration = DurationZero THEN <<(<<1>>), (<<1>>)>>
    ELSE <<Nanoseconds(o.elapsed), Nanoseconds(o.duration)>>

\* Elapsed time e is exactly the fraction f of duration d:
\* e * denominator = d * numerator.
IsFractionOf(e, d, f) ==
    LET got == Times(Nanoseconds(e), f[2])
        exact == Times(Nanoseconds(d), f[1])
    IN  AtMost(got, exact) /\ AtMost(exact, got)

\* Elapsed time e is the fraction f of duration d up to the rounding of the
\* f32 arithmetic: it is off by no more than one part in 2^20 of the exact
\* value (2^20 = 1048576) and the nanosecond of the conversion. The two sides
\* are compared after a multiplication by the denominator and by 2^20.
IsNearFractionOf(e, d, f) ==
    LET got == Times(Times(Nanoseconds(e), f[2]), <<8576, 104>>)
        exact == Times(Nanoseconds(d), f[1])
        off == Plus(exact, Times(f[2], <<8576, 104>>))
        scaled == Times(exact, <<8576, 104>>)
    IN  /\ AtMost(got, Plus(scaled, off))
        /\ AtMost(scaled, Plus(got, off))

AtEasyFraction(o) ==
    \/ o.duration = DurationZero
    \/ o.elapsed = DurationZero
    \/ o.elapsed = o.duration
    \/ DurationAdd(o.elapsed, o.elapsed) = o.duration

C12_MaxTakesLongerRemaining ==
    [][Merging("Max") =>
        LET mine == TimerRemaining(result.timer)
            theirs == TimerRemaining(other.timer)
        IN  /\ result'.timer =
                   IF DurationLt(mine, theirs) THEN other.timer
                   ELSE result.timer
            /\ TimerRemaining(result'.timer) =
                   IF DurationLt(mine, theirs) THEN theirs ELSE mine
            /\ result'.mode = result.mode]_vars

\* C13: a merge with self in Sum mode leaves self's duration the sum of the
\* two durations; merge after merge, the durations add up.
C13_SumAddsDurations ==
    [][Merging("Sum") =>
        result'.timer.duration =
            DurationAdd(result.timer.duration, other.timer.duration)]_vars

\* The second merge of a chain: a timer of duration 3 that a Sum merge
\* produced was merged into a fresh Sum timer of duration 2, which now has
\* duration 5.
C13_Witness ==
    /\ before # <<>> /\ merges = 2
    /\ before[1].mode = "Sum" /\ other.mode = "Sum"
    /\ before[1].timer.duration = from_secs(2)
    /\ before[1].timer.elapsed = DurationZero
    /\ other.timer.duration = from_secs(3)
    /\ result.timer.duration = from_secs(5)

\* A Merge application carrying a stack counter leaves the instance it
\* matched with the counter the instance had plus the incoming one, and the
\* incoming one when no instance matched.
StackCounterCounts ==
    (Applying("Merge") /\ "EffectStacks" \in DOMAIN Head(queue).bundle) =>
        LET cmd == Head(queue)
            had == {e \in Matches(world, cmd) : Has(world, e, "EffectStacks")}
        IN  \E e \in Effects(world') :
                /\ Instances(world', cmd.target, cmd.name, "Merge") = {e}
                /\ Has(world', e, "EffectStacks")
                /\ world'[e]["EffectStacks"] =
                       IF e \in had
                       THEN world[e]["EffectStacks"] + cmd.bundle["EffectStacks"]
                       ELSE cmd.bundle["EffectStacks"]

\* Every queued application of the default stack counter has been applied.
StackedApplied == issued >= 1 /\ queue = <<>>

\* There is one effect, and its stack counter is n.
OneEffectCounting(n) ==
    \E e \in Effects(world) :
        /\ Effects(world) = {e}
        /\ Has(world, e, "EffectStacks") /\ world[e]["EffectStacks"] = n

\* C14 as stated: N Merge applications carrying a default stack counter (1),
\* to the same target under the same name, leave exactly one instance whose
\* counter is N, for every N: each application adds one to the counter of the
\* instance it matches.
C14_StackCounterIsN ==
    /\ [](StackedApplied => OneEffectCounting(issued))
    /\ [][StackCounterCounts]_vars

\* The sum of the matched instance's counter and the incoming one fits the
\* counter's u8.
SumFitsCounter ==
    \A e \in Matches(world, Head(queue)) :
        Has(world, e, "EffectStacks") =>
            world[e]["EffectStacks"] + Head(queue).bundle["EffectStacks"] <= 255

\* C14, amended: N Merge applications carrying a default stack counter (1),
\* to the same target under the same name, leave exactly one instance whose
\* counter is N, for N up to 255: each application adds one to the counter
\* of the instance it matches while the sum is at most 255.
C14_StackCounterUpTo255 ==
    /\ []((StackedApplied /\ issued <= 255) => OneEffectCounting(issued))
    /\ [][(Applying("Merge") /\ "EffectStacks" \in DOMAIN Head(queue).bundle
           /\ SumFitsCounter) => StackCounterCounts]_vars

\* 255 Merge applications of a default stack counter have been applied: one
\* instance, counter 255, the last value of the u8.
C14_Witness ==
    /\ StackedApplied /\ issued = 255 /\ phase = "Flush"
    /\ OneEffectCounting(255)

\* C15: a step applying an Insert or Merge command that matches no effect
\* (the target has no relation set, or no effect in it has both the command's
\* mode and its name) adds exactly one entity, which carries the command's
\* target, name, mode and bundle and is in the target's relation set, and
\* leaves every effect that existed as it was.
C15_UnmatchedSpawnsOne ==
    [][((Applying("Insert") \/ Applying("Merge"))
        /\ Matches(world, Head(queue)) = {}) =>
        LET cmd == Head(queue) IN
        \E id \in DOMAIN world' \ DOMAIN world :
            /\ DOMAIN world' = DOMAIN world \cup {id}
            /\ world'[id] = cmd.bundle @@
                   [Effecting |-> cmd.target, Name |-> cmd.name,
                    EffectMode |-> cmd.mode]
            /\ id \in EffectedBy(world', cmd.target)
            /\ \A e \in Effects(world) : world'[e] = world[e]]_vars

\* A target that already had an effect: an Insert and a Merge application of
\* one name each found no effect of its own mode and spawned its own instance,
\* with its own payload.
C15_Witness ==
    \E e1, e2 \in Effects(world) :
        /\ world[e1]["EffectMode"] = "Insert" /\ world[e2]["EffectMode"] = "Merge"
        /\ world[e1]["Effecting"] = world[e2]["Effecting"]
        /\ world[e1]["Name"] = world[e2]["Name"]
        /\ world[e1] = [MyEffect |-> 0, Effecting |-> world[e1]["Effecting"],
                        Name |-> world[e1]["Name"], EffectMode |-> "Insert"]
        /\ Has(world, e2, "MyEffect") /\ world[e2]["MyEffect"] = 1
        /\ EffectedBy(world, world[e1]["Effecting"]) = {e1, e2}

\* The effects of world w that are not the same in world w2.
Changed(w, w2) == {e \in Effects(w) : e \notin DOMAIN w2 \/ w2[e] # w[e]}

\* C16: a step applying an AddEffectCommand changes at most one of the effects
\* that existed, and only an effect whose target, name and mode are the
\* command's: every effect of another name, mode or target is as it was.
C16_ChangesOnlyTheMatch ==
    [][(Applying("Stack") \/ Applying("Insert") \/ Applying("Merge")) =>
        LET cmd == Head(queue)
            changed == Changed(world, world')
        IN  /\ Cardinality(changed) <= 1
            /\ \A e \in changed :
                   /\ world[e]["Effecting"] = cmd.target
                   /\ world[e]["Name"] = cmd.name
                   /\ world[e]["EffectMode"] = cmd.mode]_vars

\* Three commands were flushed: the third collided with the first and changed
\* its payload from 0 to 1, next to the effect of the second, of another name
\* on the same target in the same mode, which is as it was spawned.
C16_Witness ==
    /\ phase = "Flush" /\ queue = <<>> /\ Len(batch) = 3 /\ registry.present
    /\ batch[1].target = batch[3].target /\ batch[1].name = batch[3].name
    /\ batch[1].mode = batch[3].mode
    /\ batch[1].bundle = [MyEffect |-> 0] /\ batch[3].bundle = [MyEffect |-> 1]
    /\ batch[2].target = batch[1].target /\ batch[2].mode = batch[1].mode
    /\ batch[2].name # batch[1].name
    /\ \E e1, e2 \in Effects(world) :
           /\ Effects(world) = {e1, e2}
           /\ world[e1]["Name"] = batch[1].name /\ world[e1]["MyEffect"] = 1
           /\ world[e2] = batch[2].bundle @@
                  [Effecting |-> batch[2].target, Name |-> batch[2].name,
                   EffectMode |-> batch[2].mode]

\* The commands of the batch that have mode m.
BatchOfMode(m) == {i \in 1..Len(batch) : batch[i].mode = m}

\* An Insert or Merge application neither matches nor changes a Stack effect.
StackInstancesUntouched ==
    (Applying("Insert") \/ Applying("Merge")) =>
        \A e \in Effects(world) :
            world[e]["EffectMode"] = "Stack" =>
                /\ e \notin Matches(world, Head(queue))
                /\ e \in DOMAIN world' /\ world'[e] = world[e]

\* When the run so far is one flushed batch of applications of one name to
\* one target, there is one Stack instance per Stack command, each holding a
\* Stack command's payload, and, if the batch has an Insert command, one
\* Insert instance, holding the payload of the last one.
MixedBatchCoexists ==
    (phase = "Flush" /\ queue = <<>> /\ issued = Len(batch)) =>
        /\ Cardinality(Instances(world, 1, "a", "Stack")) =
               Cardinality(BatchOfMode("Stack"))
        /\ \A e \in Instances(world, 1, "a", "Stack") :
               \E i \in BatchOfMode("Stack") : Holds(world, e, batch[i].bundle)
        /\ BatchOfMode("Insert") # {} =>
               \E e \in Effects(world) :
                   /\ Instances(world, 1, "a", "Insert") = {e}
                   /\ \A i \in BatchOfMode("Insert") :
                          (\A j \in BatchOfMode("Insert") : j <= i) =>
                              Holds(world, e, batch[i].bundle)

\* C17: Stack and Insert effects of one name on one target coexist: an Insert
\* or Merge application never matches or overwrites a Stack instance, so after
\* a batch such as Stack, Stack, Insert, Insert there are the two Stack
\* instances and exactly one Insert instance, holding the last Insert payload.
C17_StackAndInsertCoexist ==
    []MixedBatchCoexists /\ [][StackInstancesUntouched]_vars

\* Stack MyEffect(0), Stack MyEffect(1), Insert MyEffect(0), Insert
\* MyEffect(1) were flushed: two Stack instances holding 0 and 1 and one
\* Insert instance holding 1.
C17_Witness ==
    /\ phase = "Flush" /\ queue = <<>> /\ issued = 4 /\ Len(batch) = 4
    /\ batch[1].mode = "Stack" /\ batch[1].bundle = [MyEffect |-> 0]
    /\ batch[2].mode = "Stack" /\ batch[2].bundle = [MyEffect |-> 1]
    /\ batch[3].mode = "Insert" /\ batch[3].bundle = [MyEffect |-> 0]
    /\ batch[4].mode = "Insert" /\ batch[4].bundle = [MyEffect |-> 1]
    /\ \E e1, e2, e3 \in Effects(world) :
           /\ Effects(world) = {e1, e2, e3}
           /\ Instances(world, 1, "a", "Stack") = {e1, e2}
           /\ world[e1]["MyEffect"] = 0 /\ world[e2]["MyEffect"] = 1
           /\ Instances(world, 1, "a", "Insert") = {e3}
           /\ world[e3]["MyEffect"] = 1

\* C18: a step applying a Merge command that matches an effect, with the
\* registry present, merges no timer role that one side lacks: a Lifetime or
\* Delay the effect carries and the bundle does not is as it was, whatever
\* its TimerMergeMode, and one the bundle carries and the effect does not is
\* written as given.
C18_AbsentTimerNotMerged ==
    [][(Applying("Merge") /\ registry.present
        /\ Matches(world, Head(queue)) # {}) =>
        LET cmd == Head(queue) IN
        \A e \in Matches(world, cmd), role \in TimerKinds :
            /\ (role \notin DOMAIN cmd.bundle /\ Has(world, e, role)) =>
                   Has(world', e, role) /\ world'[e][role] = world[e][role]
            /\ (role \in DOMAIN cmd.bundle /\ ~Has(world, e, role)) =>
                   Has(world', e, role) /\ world'[e][role] = cmd.bundle[role]]_vars

\* C19 as stated: after a step applying an Insert command that matches an
\* effect, the effect carries the command's bundle, its target, name and mode,
\* and nothing else: a kind an earlier application wrote and the bundle lacks
\* is gone.
C19_InsertReplacesPayload ==
    [][(Applying("Insert") /\ Matches(world, Head(queue)) # {}) =>
        LET cmd == Head(queue) IN
        \A e \in Matches(world, cmd) :
            /\ Holds(world', e, cmd.bundle)
            /\ DOMAIN world'[e] =
                   DOMAIN cmd.bundle \cup {"Effecting", "Name", "EffectMode"}]_vars

\* C19, amended: after a step applying an Insert command that matches an
\* effect, every kind of the command's bundle holds the command's value and
\* every other component the effect carried, a kind written by an earlier
\* application included, is still on it with the value it had.
C19_InsertKeepsOtherKinds ==
    [][(Applying("Insert") /\ Matches(world, Head(queue)) # {}) =>
        LET cmd == Head(queue) IN
        \A e \in Matches(world, cmd) :
            /\ Holds(world', e, cmd.bundle)
            /\ DOMAIN world'[e] = DOMAIN world[e] \cup DOMAIN cmd.bundle
            /\ \A k \in DOMAIN world[e] \ DOMAIN cmd.bundle :
                   world'[e][k] = world[e][k]]_vars

\* An Insert effect that carried a stack counter and ticked timers was matched
\* by an Insert of MyEffect(1) alone: it holds MyEffect(1) and still carries
\* the counter and the ticked Lifetime.
C19_Witness ==
    /\ phase = "Flush" /\ queue = <<>> /\ Len(batch) = 1
    /\ batch[1].mode = "Insert" /\ batch[1].bundle = [MyEffect |-> 1]
    /\ \E e \in Effects(world) :
           /\ Instances(world, batch[1].target, batch[1].name, "Insert") = {e}
           /\ world[e]["MyEffect"] = 1
           /\ Has(world, e, "EffectStacks") /\ Has(world, e, "Lifetime")
           /\ world[e]["Lifetime"].timer.elapsed = from_secs(1)

\* C20: after a step applying an Insert command that matches an effect, each
\* Lifetime or Delay of the command's bundle is on the effect exactly as the
\* bundle gives it (timer and merge mode), whatever the TimerMergeMode of
\* either timer: no timer is combined.
C20_InsertCombinesNoTimer ==
    [][(Applying("Insert") /\ Matches(world, Head(queue)) # {}) =>
        LET cmd == Head(queue) IN
        \A e \in Matches(world, cmd), role \in TimerKinds \cap DOMAIN cmd.bundle :
            Has(world', e, role) /\ world'[e][role] = cmd.bundle[role]]_vars

\* An Insert effect with a Lifetime and a Delay was ticked, as its Delay still
\* shows, and then matched by an Insert of a fresh Sum-mode Lifetime: its
\* Lifetime is the fresh one, duration and elapsed time not combined.
C20_Witness ==
    /\ phase = "Flush" /\ queue = <<>> /\ Len(batch) = 1
    /\ batch[1].mode = "Insert"
    /\ batch[1].bundle =
           [Lifetime |-> WithMode(from_seconds("Lifetime", ExampleLifetime), "Sum")]
    /\ \E e \in Effects(world) :
           /\ Instances(world, 1, "a", "Insert") = {e}
           /\ Has(world, e, "Delay") /\ world[e]["Delay"].timer.elapsed = from_secs(1)
           /\ world[e]["Lifetime"] = batch[1].bundle["Lifetime"]

\* The function of the most recent register call made for kind k.
LastRegistered(k) ==
    LET is == {i \in 1..Len(calls) : calls[i].kind = k}
    IN  calls[CHOOSE i \in is : \A j \in is : j <= i].f

\* The registry maps exactly the kinds registered so far, each to the function
\* of the most recent registration for it.
RegistryHoldsLatest ==
    /\ registry.present
    /\ DOMAIN registry.merges = {calls[i].kind : i \in 1..Len(calls)}
    /\ \A k \in DOMAIN registry.merges : registry.merges[k] = LastRegistered(k)

\* A step removes no kind from the registry, and a register call changes the
\* entry of no kind but its own.
RegistryGrowsOnly ==
    /\ DOMAIN registry.merges \subseteq DOMAIN registry'.merges
    /\ Len(calls') = Len(calls) + 1 =>
           \A k \in DOMAIN registry.merges \ {calls'[Len(calls')].kind} :
               registry'.merges[k] = registry.merges[k]

\* C21: after any sequence of register calls the registry maps each
\* registered kind to the function of the most recent registration for that
\* kind; a registration leaves the entries of other kinds as they were, and
\* no kind is ever removed.
C21_RegisterLastWins == []RegistryHoldsLatest /\ [][RegistryGrowsOnly]_vars

\* Lifetime was registered, then Delay, then Lifetime again with another
\* function: the registry holds the later function for Lifetime and Delay's
\* entry is as registered.
C21_Witness ==
    /\ Len(calls) = 3
    /\ calls[1].kind = "Lifetime" /\ calls[2].kind = "Delay"
    /\ calls[3].kind = "Lifetime" /\ calls[3].f # calls[1].f
    /\ registry.merges["Lifetime"] = calls[3].f
    /\ registry.merges["Delay"] = calls[2].f

\* C22: an effect that a step leaves alive carries the same name, the same
\* mode and the same Effecting target after the step as before it, whatever
\* command of whatever mode the step applies.
C22_IdentityIsFixed ==
    [][\A e \in Effects(world) \cap DOMAIN world' :
          /\ Has(world', e, "Name") /\ world'[e]["Name"] = world[e]["Name"]
          /\ Has(world', e, "EffectMode")
          /\ world'[e]["EffectMode"] = world[e]["EffectMode"]
          /\ Has(world', e, "Effecting")
          /\ world'[e]["Effecting"] = world[e]["Effecting"]]_vars

\* An Insert effect that two applications wrote to (it carries the components
\* of both kinds of bundle) and that frames have ticked: it still acts on
\* target 1 under name "a".
C22_Witness ==
    \E e \in Effects(world) :
        /\ world[e]["EffectMode"] = "Insert"
        /\ world[e]["Name"] = "a" /\ world[e]["Effecting"] = 1
        /\ e \in EffectedBy(world, 1)
        /\ Has(world, e, "MyEffect") /\ Has(world, e, "Lifetime")
        /\ world[e]["Lifetime"].timer.elapsed # DurationZero

\* C23: a step applying a Merge command whose bundle carries a Sum-mode
\* Lifetime to an effect that carries a Lifetime leaves the effect with the
\* incoming Lifetime changed in its duration only: the duration is the
\* existing duration plus the incoming one, and the elapsed time, the rest of
\* the timer and the merge mode are the incoming timer's.
C23_SumChangesDurationOnly ==
    [][(/\ Applying("Merge") /\ registry.present
        /\ Matches(world, Head(queue)) # {}
        /\ "Lifetime" \in DOMAIN Head(queue).bundle
        /\ Head(queue).bundle["Lifetime"].mode = "Sum") =>
        LET cmd == Head(queue) IN
        \A e \in Matches(world, cmd) :
            Has(world, e, "Lifetime") =>
                /\ Has(world', e, "Lifetime")
                /\ world'[e]["Lifetime"] =
                       [cmd.bundle["Lifetime"] EXCEPT !.timer.duration =
                           DurationAdd(world[e]["Lifetime"].timer.duration,
                                       cmd.bundle["Lifetime"].timer.duration)]
                /\ world'[e]["Lifetime"].timer.elapsed =
                       cmd.bundle["Lifetime"].timer.elapsed]_vars

\* An effect applied with a Lifetime and a Delay was ticked by one unit (its
\* Delay shows it) and then merged with a fresh Sum-mode Lifetime: the
\* Lifetime has both durations and nothing elapsed.
C23_Witness ==
    \E e \in Effects(world) :
        /\ world[e]["EffectMode"] = "Merge"
        /\ Has(world, e, "Lifetime") /\ Has(world, e, "Delay")
        /\ world[e]["Delay"].timer.elapsed = from_secs(1)
        /\ world[e]["Lifetime"].mode = "Sum"
        /\ world[e]["Lifetime"].timer.duration = from_secs(ExampleLifetime + ExampleLifetime)
        /\ world[e]["Lifetime"].timer.elapsed = DurationZero

\* Every live entity is a target or an effect, none is disabled, and the
\* relation sets hold effects only.
NoScratchLeft ==
    /\ \A e \in DOMAIN world :
           /\ "Disabled" \notin DOMAIN world[e]
           /\ e \in Targets \/ e \in Effects(world)
    /\ \A t \in Targets : EffectedBy(world, t) \subseteq Effects(world)

\* A step applying a Merge command that matches an effect leaves the set of
\* live entities as it was; and while the command runs, the temporary entity
\* is disabled, carries no EffectMode and is in no target's relation set.
ScratchIsTemporary ==
    (Applying("Merge") /\ Matches(world, Head(queue)) # {}) =>
        /\ DOMAIN world' = DOMAIN world
        /\ Cardinality(DOMAIN world') = Cardinality(DOMAIN world)
        /\ registry.present =>
               \E e \in Matches(world, Head(queue)) :
                   LET st == mergeStages(world, registry, Head(queue), e)
                       temp == FreshEntity(world)
                   IN  /\ world' = st[4]
                       /\ temp \notin DOMAIN st[4]
                       /\ \A i \in 1..3 :
                              /\ temp \in DOMAIN st[i]
                              /\ "Disabled" \in DOMAIN st[i][temp]
                              /\ temp \notin Effects(st[i])
                              /\ \A t \in Targets :
                                     temp \notin EffectedBy(st[i], t)

\* C24: the temporary entity of a Merge collision is gone when the command
\* completes: a matched Merge application leaves the number of entities
\* unchanged, with or without a registry, and the temporary entity is never
\* in a relation set nor an effect.
C24_ScratchIsGone == []NoScratchLeft /\ [][ScratchIsTemporary]_vars

\* A plugin world after one flush applied the timed bundle twice in Merge
\* mode to the same target and name, the second a collision whose temporary
\* entity took the Lifetime and the Delay: the two targets and the effect are
\* the only entities.
C24_Witness ==
    /\ plugin /\ phase = "Flush" /\ queue = <<>> /\ Len(batch) = 2
    /\ batch[1].mode = "Merge" /\ batch[2].mode = "Merge"
    /\ batch[1].target = batch[2].target /\ batch[1].name = batch[2].name
    /\ "Lifetime" \in DOMAIN batch[1].bundle
    /\ "Lifetime" \in DOMAIN batch[2].bundle
    /\ \E e \in Effects(world) :
           /\ world[e]["EffectMode"] = "Merge"
           /\ Has(world, e, "Lifetime") /\ Has(world, e, "Delay")
           /\ DOMAIN world = Targets \cup {e}

\* The entities of the despawn commands in sequence q.
Despawned(q) == {q[i].entity : i \in {j \in 1..Len(q) : q[j].kind = "Despawn"}}

\* The maintenance step queues despawns for exactly the entities that carry a
\* Lifetime whose timer is finished after the step's tick.
MaintenanceQueuesFinished ==
    (phase = "PreUpdate" /\ phase' = "Sync") =>
        /\ Len(queue') >= Len(queue)
        /\ SubSeq(queue', 1, Len(queue)) = queue
        /\ Despawned(SubSeq(queue', Len(queue) + 1, Len(queue'))) =
               {e \in DOMAIN world' :
                   /\ Has(world', e, "Lifetime")
                   /\ world'[e]["Lifetime"].timer.finished}
        /\ DOMAIN world' = DOMAIN world

\* An entity leaves the world only by the application of a despawn command
\* the maintenance step queued for it, and it carries a Lifetime then; a
\* step that queues no despawn and applies none (such as tick_delay, however
\* many Delay timers finish in it) destroys nothing.
DestroyedByDespawnOnly ==
    \A e \in DOMAIN world \ DOMAIN world' :
        /\ phase = "Sync" /\ queue # <<>>
        /\ Head(queue) = DespawnCommand(e)
        /\ Has(world, e, "Lifetime")

\* C25: maintenance destroys an entity only if it carries a Lifetime whose
\* timer is finished after this frame's tick; an effect without a Lifetime is
\* never destroyed, and a Delay finishing destroys nothing.
C25_OnlyFinishedLifetimesDespawn ==
    [][MaintenanceQueuesFinished /\ DestroyedByDespawnOnly]_vars

\* Game logic sees an effect without a Lifetime whose Delay finished in this
\* frame's maintenance: the effect is alive and in its target's relation set.
C25_Witness ==
    /\ plugin /\ phase = "Update"
    /\ \E e \in Effects(world) :
           /\ ~Has(world, e, "Lifetime")
           /\ Has(world, e, "Delay")
           /\ world[e]["Delay"].timer.finished
           /\ world[e]["Delay"].timer.times_finished_this_tick = U32(1)
           /\ e \in EffectedBy(world, world[e]["Effecting"])

\* C26: whenever game logic runs (the Update step of a frame), no live effect
\* carries a finished Lifetime, no despawn is waiting in the queue, and every
\* relation set holds live entities only: what the frame's maintenance
\* finished is already gone from the world and from its target's set.
C26_FinishedGoneBeforeUpdate ==
    phase = "Update" =>
        /\ \A e \in DOMAIN world :
               Has(world, e, "Lifetime") => ~world[e]["Lifetime"].timer.finished
        /\ Despawned(queue) = {}
        /\ \A t \in Targets : EffectedBy(world, t) \subseteq DOMAIN world

\* Game logic runs in a plugin world where one effect is left, a
\* Lifetime-less one, and an entity allocated before it is gone (entities are
\* allocated lowest free number first): the other effect's Lifetime finished
\* and maintenance removed it.
C26_Witness ==
    /\ plugin /\ phase = "Update" /\ issued = 2 /\ queue = <<>>
    /\ \E e \in Effects(world) :
           /\ Effects(world) = {e}
           /\ ~Has(world, e, "Lifetime")
           /\ EffectedBy(world, 1) = {e}
           /\ \E x \in 1..(e - 1) : x \notin DOMAIN world

\* C27: in every reachable state the stack counter of every live effect is
\* at least 1.
C27_StackCounterAtLeastOne ==
    \A e \in Effects(world) :
        Has(world, e, "EffectStacks") => world[e]["EffectStacks"] >= 1

\* This step makes a builder call of kind op; the call is the last of calls'.
Calling(op) ==
    /\ Len(calls') = Len(calls) + 1
    /\ calls'[Len(calls')].op = op

\* C28: new gives a Lifetime a run-once timer of the given duration with
\* nothing elapsed and merge mode Max, and a Delay a repeating timer with
\* nothing elapsed and merge mode Fraction; with_mode sets the merge mode and
\* leaves the timer (duration, elapsed time and the rest) as it was.
C28_BuildersAsDocumented ==
    [][/\ Calling("new") =>
           LET c == calls'[Len(calls')] IN
           /\ result'.timer.duration = c.duration
           /\ result'.timer.elapsed = DurationZero
           /\ ~result'.timer.finished
           /\ c.kind = "Lifetime" =>
                  result'.timer.mode = "Once" /\ result'.mode = "Max"
           /\ c.kind = "Delay" =>
                  result'.timer.mode = "Repeating" /\ result'.mode = "Fraction"
       /\ Calling("with_mode") =>
           /\ result'.mode = calls'[Len(calls')].mode
           /\ result'.timer.duration = result.timer.duration
           /\ result'.timer.elapsed = result.timer.elapsed
           /\ result'.timer = result.timer]_vars

\* A Delay built with new, ticked by one unit and then given merge mode Sum:
\* it is repeating, was in Fraction mode before the call, and still has one
\* unit elapsed of its two.
C28_Witness ==
    /\ Len(calls) = 2
    /\ calls[1] = [op |-> "new", kind |-> "Delay", duration |-> from_secs(2)]
    /\ calls[2] = [op |-> "with_mode", mode |-> "Sum"]
    /\ before # <<>>
    /\ before[1].mode = "Fraction" /\ before[1].timer.elapsed = from_secs(1)
    /\ result.mode = "Sum"
    /\ result.timer.mode = "Repeating"
    /\ result.timer.duration = from_secs(2) /\ result.timer.elapsed = from_secs(1)

\* The arm of EffectTimer::merge that merge mode m names, applied to self and
\* the other timer.
ArmOf(m, self, incoming) ==
    CASE m = "Replace" -> MergeReplace(self, incoming)
      [] m = "Keep" -> MergeKeep(self, incoming)
      [] m = "Fraction" -> MergeFraction(self, incoming)
      [] m = "Max" -> MergeMax(self, incoming)
      [] m = "Sum" -> MergeSum(self, incoming)

\* C29: after a step applying a Merge command to an effect, each timer kind
\* that both the bundle and the effect carry has the merge mode of the
\* bundle's timer, is the result of the arm that the bundle's merge mode names,
\* and is the same whatever merge mode the effect's timer had.
C29_SelfModeDecides ==
    [][(Applying("Merge") /\ registry.present
        /\ Matches(world, Head(queue)) # {}) =>
        LET cmd == Head(queue) IN
        \A e \in Matches(world, cmd) :
            \A k \in (TimerKinds \cap DOMAIN cmd.bundle) \cap DOMAIN world[e] :
                /\ Has(world', e, k)
                /\ world'[e][k].mode = cmd.bundle[k].mode
                /\ world'[e][k] =
                       ArmOf(cmd.bundle[k].mode, cmd.bundle[k], world[e][k])
                /\ \A m \in TimerMergeModes :
                       world'[e][k] =
                           TimerMerge(cmd.bundle[k],
                                      [world[e][k] EXCEPT !.mode = m])]_vars

\* An effect applied with a Max-mode Lifetime and a Delay, ticked by one unit
\* in all, and merged with a Keep-mode Lifetime: the Lifetime is in Keep mode
\* and holds the timer of the Lifetime it met.
C29_Witness ==
    \E e \in Effects(world) :
        /\ world[e]["EffectMode"] = "Merge"
        /\ Has(world, e, "Lifetime") /\ Has(world, e, "Delay")
        /\ world[e]["Lifetime"].mode = "Keep"
        /\ world[e]["Lifetime"].timer.elapsed = from_secs(1)
        /\ world[e]["Delay"].timer.elapsed = from_secs(1)

\* C30: a step that applies a despawn queued by maintenance to a live entity
\* finds the entity with a Lifetime that is finished.
C30_DespawnedAreFinished ==
    [][(/\ phase = "Sync" /\ queue # <<>>
        /\ Head(queue).kind = "Despawn"
        /\ queue' = Tail(queue)
        /\ Head(queue).entity \in DOMAIN world) =>
        /\ Has(world, Head(queue).entity, "Lifetime")
        /\ world[Head(queue).entity]["Lifetime"].timer.finished]_vars

\* C31: in every step applying a Merge command to an effect it matches,
\* with the registry present, each merge function called finds the component
\* it reads on the surviving effect and on the temporary entity.
C31_MergeFnsUnwrap ==
    [][(Applying("Merge") /\ registry.present
        /\ Matches(world, Head(queue)) # {}) =>
        \A e \in Matches(world, Head(queue)) :
            UnwrapsSucceed(world, registry, Head(queue), e)]_vars

\* One flush of a plugin world applied a Lifetime with a stack counter and
\* then a Delay with a MyEffect payload: the one effect carries all four,
\* the merge functions of the two kinds it had were called (the counter
\* shows it).
C31_Witness ==
    /\ plugin /\ phase = "Flush" /\ queue = <<>> /\ Len(batch) = 2
    /\ DOMAIN batch[1].bundle = {"Lifetime", "EffectStacks"}
    /\ DOMAIN batch[2].bundle = {"Delay", "MyEffect"}
    /\ \E e \in Effects(world) :
           /\ Effects(world) = {e}
           /\ BundleKinds \subseteq DOMAIN world[e]
           /\ world[e]["EffectStacks"] = 2

\* This step applies the AddEffectCommand at the head of the queue.
ApplyingAny == \E m \in EffectModes : Applying(m)

\* C32: whatever effect the search of apply could find for the command being
\* applied (any effect of the target with the command's mode and name, or
\* none), apply does not take the Stack arm of its final match; and the step
\* does what the way taken says: spawn, insert or merge.
C32_StackArmUnreachable ==
    [][ApplyingAny =>
        LET cmd == Head(queue) IN
        /\ \A o \in Matches(world, cmd) \cup {NoEntity} :
               applyArm(world, cmd, o) # "unreachable"
        /\ \E o \in OldEntities(world, cmd) :
               LET arm == applyArm(world, cmd, o) IN
               world' = CASE arm = "spawn" -> spawn(world, cmd)
                          [] arm = "insert" -> insert(world, cmd, o)
                          [] arm = "merge" -> merge(world, registry, cmd, o)]_vars

\* Three Stack effects of one name act on target 1: the second and the third
\* Stack command were applied with Stack effects of their name in the
\* target's relation set.
C32_Witness ==
    /\ Cardinality(Instances(world, 1, "a", "Stack")) = 3
    /\ Instances(world, 1, "a", "Stack") \subseteq EffectedBy(world, 1)

\* Timer t has elapsed no less than nothing and no more than its duration.
WithinDuration(t) ==
    DurationLe(DurationZero, t.elapsed) /\ DurationLe(t.elapsed, t.duration)

\* C33: a merge of run-once timers that both have 0 <= elapsed <= duration
\* leaves self with 0 <= elapsed <= duration, in each of the five modes. On
\* nanosecond timers the Fraction arm breaks it: a Lifetime of 100 ms merged
\* with a finished timer is given 100 000 001 ns of elapsed time, because
\* 0.1 is no f32 and the f32 nearest to it lies above it.
C33_MergeKeepsElapsedBound ==
    [][\A m \in TimerMergeModes :
          (/\ Merging(m)
           /\ result.timer.mode = "Once" /\ other.timer.mode = "Once"
           /\ WithinDuration(result.timer) /\ WithinDuration(other.timer)) =>
              WithinDuration(result'.timer)]_vars

====
